---- MODULE Spec2Model ----
(***************************************************************************)
(* The Gemini API key manager of the AI quiz generator                     *)
(* (src/gemini_api_manager.py): the credential loader, the lazily created  *)
(* process-wide manager, and generate_content's sweep over                 *)
(* (credential, model) pairs, as a state machine.                          *)
(*                                                                         *)
(* Python values are records carrying their type, so that None, strings    *)
(* and exceptions can be compared.  A string is its sequence of            *)
(* characters.                                                             *)
(***************************************************************************)
EXTENDS Integers, Sequences, FiniteSets

VARIABLES
  env,            \* os.environ: variable name -> string, set names only
  _api_manager,   \* the module global of gemini_api_manager
  constructed,    \* how many GeminiAPIManager objects were constructed
  pc,             \* per caller: where its current call stands
  api_manager,    \* per caller: the reference get_api_manager returned
  prompt,         \* per caller: generate_content's argument
  i,              \* per caller: index of the outer loop (1-based)
  j,              \* per caller: index of the inner loop (1-based)
  last_error,     \* per caller: generate_content's local last_error
  key_preview,    \* per caller: the preview printed for the current key
  log,            \* per caller: the provider calls issued by the current call
  clients,        \* per caller: genai.Client objects built by the current call
  raised,         \* per caller: the exception the provider raised last
  outcome,        \* per caller: how the last finished call ended
  status,         \* per caller: the dict get_status returned last
  session_state,  \* per page: the quiz keys of st.session_state
  script_run      \* the Generate click being handled, and what it did

vars == <<env, _api_manager, constructed, pc, api_manager, prompt, i, j,
          last_error, key_preview, log, clients, raised, outcome, status,
          session_state, script_run>>

\* The state of the pages.
ui == <<session_state, script_run>>

locals == <<prompt, i, j, last_error, key_preview, log, clients, raised, outcome>>

\* ------------------------------------------------------------------ bounds

\* Distinct credential strings the environment may hold.
NumKeyVals == 2
\* Distinct prompts a caller may pass.
NumPrompts == 2
\* Callers holding local state (threads of the process).
NumCallers == 2

\* ------------------------------------------------------------ Python values

None == [type |-> "NoneType"]

Str(cs) == [type |-> "str", chars |-> cs]

IsStr(v) == v.type = "str"

\* Python truthiness of an Optional[str]: None and "" are falsy.
Truthy(v) == IF v = None THEN FALSE ELSE v.chars # <<>>

len(v) == Len(v.chars)

Range(s) == {s[n] : n \in 1..Len(s)}

Whitespace == {" ", "\t", "\n"}

RECURSIVE lstrip(_)
lstrip(cs) ==
  IF cs # <<>> /\ Head(cs) \in Whitespace THEN lstrip(Tail(cs)) ELSE cs

RECURSIVE rstrip(_)
rstrip(cs) ==
  IF cs # <<>> /\ cs[Len(cs)] \in Whitespace
  THEN rstrip(SubSeq(cs, 1, Len(cs) - 1))
  ELSE cs

\* str.strip(): leading and trailing whitespace removed.
strip(cs) == rstrip(lstrip(cs))

\* str.split(sep) for a one-character separator: the pieces between the
\* separators, empty pieces included.
RECURSIVE split(_, _)
split(cs, sep) ==
  IF \A n \in 1..Len(cs) : cs[n] # sep
  THEN <<cs>>
  ELSE LET k == CHOOSE n \in 1..Len(cs) :
                  cs[n] = sep /\ \A m \in 1..(n - 1) : cs[m] # sep
       IN  <<SubSeq(cs, 1, k - 1)>> \o split(SubSeq(cs, k + 1, Len(cs)), sep)

\* s[-n:] for n > 0.
Suffix(cs, n) ==
  IF Len(cs) <= n THEN cs ELSE SubSeq(cs, Len(cs) - n + 1, Len(cs))

\* str.find(ch) and str.rfind(ch) for a one-character ch: the 0-based index
\* of the first and of the last occurrence, -1 when there is none.
find(cs, ch) ==
  IF \E n \in 1..Len(cs) : cs[n] = ch
  THEN (CHOOSE n \in 1..Len(cs) : cs[n] = ch /\ \A m \in 1..(n - 1) : cs[m] # ch) - 1
  ELSE -1

rfind(cs, ch) ==
  IF \E n \in 1..Len(cs) : cs[n] = ch
  THEN (CHOOSE n \in 1..Len(cs) : cs[n] = ch /\ \A m \in (n + 1)..Len(cs) : cs[m] # ch) - 1
  ELSE -1

\* cs[start:stop] for 0-based start and stop that are not negative.
Slice(cs, start, stop) ==
  LET last == IF stop < Len(cs) THEN stop ELSE Len(cs)
  IN  IF start >= last THEN <<>> ELSE SubSeq(cs, start + 1, last)

\* ------------------------------------------------------------------- json

\* What json.loads returns: None, an int, a str, a list or a dict.
PyInt(n) == [type |-> "int", val |-> n]
List(items) == [type |-> "list", items |-> items]
Dict(items) == [type |-> "dict", items |-> items]

JSONDecodeError == [type |-> "JSONDecodeError"]
TypeError == [type |-> "TypeError"]

JsonWhitespace == {" ", "\t", "\n", "\r"}
Digits == <<"0", "1", "2", "3", "4", "5", "6", "7", "8", "9">>
DigitValue(ch) == (CHOOSE n \in 1..10 : Digits[n] = ch) - 1

\* The first position at or after p that holds no JSON whitespace.
RECURSIVE SkipWhitespace(_, _)
SkipWhitespace(cs, p) ==
  IF p <= Len(cs) /\ cs[p] \in JsonWhitespace THEN SkipWhitespace(cs, p + 1) ELSE p

NoParse == [ok |-> FALSE, val |-> None, pos |-> 0]
Parsed(v, p) == [ok |-> TRUE, val |-> v, pos |-> p]

\* The characters of a string literal from p up to its closing quote (the
\* modelled texts hold no escapes and no control characters).
RECURSIVE ParseString(_, _, _)
ParseString(cs, p, acc) ==
  IF p > Len(cs) THEN NoParse
  ELSE IF cs[p] = "\"" THEN Parsed(Str(acc), p + 1)
  ELSE IF cs[p] \in {"\\", "\n", "\t", "\r"} THEN NoParse
  ELSE ParseString(cs, p + 1, Append(acc, cs[p]))

\* The digits of an int from p on.
RECURSIVE ParseDigits(_, _, _)
ParseDigits(cs, p, acc) ==
  IF p <= Len(cs) /\ cs[p] \in Range(Digits)
  THEN ParseDigits(cs, p + 1, acc * 10 + DigitValue(cs[p]))
  ELSE Parsed(PyInt(acc), p)

\* The JSON decoder on the part of JSON the modelled texts are written in:
\* null, ints without sign, strings without escapes, arrays and objects.
RECURSIVE ParseValue(_, _)
RECURSIVE ParseItems(_, _, _)
RECURSIVE ParseMembers(_, _, _)

ParseValue(cs, p) ==
  IF p > Len(cs) THEN NoParse
  ELSE IF cs[p] = "[" THEN
    LET q == SkipWhitespace(cs, p + 1)
    IN  IF q <= Len(cs) /\ cs[q] = "]" THEN Parsed(List(<<>>), q + 1)
        ELSE ParseItems(cs, q, <<>>)
  ELSE IF cs[p] = "{" THEN
    LET q == SkipWhitespace(cs, p + 1)
    IN  IF q <= Len(cs) /\ cs[q] = "}" THEN Parsed(Dict(<<>>), q + 1)
        ELSE ParseMembers(cs, q, <<>>)
  ELSE IF cs[p] = "\"" THEN ParseString(cs, p + 1, <<>>)
  ELSE IF cs[p] = "0" THEN Parsed(PyInt(0), p + 1)
  ELSE IF cs[p] \in Range(Digits) THEN ParseDigits(cs, p, 0)
  ELSE IF p + 3 <= Len(cs) /\ SubSeq(cs, p, p + 3) = <<"n", "u", "l", "l">>
    THEN Parsed(None, p + 4)
  ELSE NoParse

\* The items of an array from p on, after the items acc.
ParseItems(cs, p, acc) ==
  LET v == ParseValue(cs, p)
      q == SkipWhitespace(cs, v.pos)
  IN  IF ~v.ok \/ q > Len(cs) THEN NoParse
      ELSE IF cs[q] = "," THEN ParseItems(cs, SkipWhitespace(cs, q + 1), Append(acc, v.val))
      ELSE IF cs[q] = "]" THEN Parsed(List(Append(acc, v.val)), q + 1)
      ELSE NoParse

\* The members of an object from p on, after the members acc; a repeated
\* key keeps its place and takes the later value.
ParseMembers(cs, p, acc) ==
  IF p > Len(cs) \/ cs[p] # "\"" THEN NoParse
  ELSE
    LET k == ParseString(cs, p + 1, <<>>)
        c == SkipWhitespace(cs, k.pos)
    IN  IF ~k.ok \/ c > Len(cs) \/ cs[c] # ":" THEN NoParse
        ELSE
          LET v    == ParseValue(cs, SkipWhitespace(cs, c + 1))
              q    == SkipWhitespace(cs, v.pos)
              more == IF \E n \in 1..Len(acc) : acc[n][1] = k.val
                      THEN [n \in 1..Len(acc) |->
                              IF acc[n][1] = k.val THEN <<k.val, v.val>> ELSE acc[n]]
                      ELSE Append(acc, <<k.val, v.val>>)
          IN  IF ~v.ok \/ q > Len(cs) THEN NoParse
              ELSE IF cs[q] = ","
                THEN ParseMembers(cs, SkipWhitespace(cs, q + 1), more)
              ELSE IF cs[q] = "}" THEN Parsed(Dict(more), q + 1)
              ELSE NoParse

\* json.loads(s) for a str s: the value, or the JSONDecodeError it raises.
loads(cs) ==
  LET v == ParseValue(cs, SkipWhitespace(cs, 1))
  IN  IF v.ok /\ SkipWhitespace(cs, v.pos) > Len(cs) THEN v.val ELSE JSONDecodeError

\* bool(v) of a decoded value.
IsTrue(v) ==
  IF v.type = "NoneType" THEN FALSE
  ELSE IF v.type = "int" THEN v.val # 0
  ELSE IF v.type = "str" THEN v.chars # <<>>
  ELSE v.items # <<>>

\* len(v) of a decoded value: None and an int have none.
HasLen(v) == v.type \in {"str", "list", "dict"}
LenOf(v) == IF v.type = "str" THEN Len(v.chars) ELSE Len(v.items)

\* ------------------------------------------------------------------- urls

\* The characters that end a match of [^\s<>"']+ .
UrlStops == {" ", "\t", "\n", "\r", "\f", "<", ">", "\"", "'"}

\* cs holds the characters pre from position p on.
StartsWith(cs, p, pre) ==
  /\ p + Len(pre) - 1 <= Len(cs)
  /\ SubSeq(cs, p, p + Len(pre) - 1) = pre

\* The position after the longest run of characters that are not stops,
\* from p on.
RECURSIVE RunEnd(_, _)
RunEnd(cs, p) ==
  IF p <= Len(cs) /\ cs[p] \notin UrlStops THEN RunEnd(cs, p + 1) ELSE p

\* Where the match of https?://[^\s<>"']+ that starts at p ends (the
\* position after it), 0 when none starts there.
MatchUrl(cs, p) ==
  LET body == IF StartsWith(cs, p, <<"h", "t", "t", "p", "s", ":", "/", "/">>) THEN p + 8
              ELSE IF StartsWith(cs, p, <<"h", "t", "t", "p", ":", "/", "/">>) THEN p + 7
              ELSE 0
      end  == RunEnd(cs, body)
  IN  IF body = 0 \/ end = body THEN 0 ELSE end

\* re.findall(url_pattern, s): the matches from left to right, none
\* overlapping another.
RECURSIVE findall(_, _)
findall(cs, p) ==
  IF p > Len(cs) THEN <<>>
  ELSE LET end == MatchUrl(cs, p)
       IN  IF end = 0 THEN findall(cs, p + 1)
           ELSE <<Str(SubSeq(cs, p, end - 1))>> \o findall(cs, end)

\* A list kept as it is.
KeepAll(xs) == xs

\* list(dict.fromkeys(xs)): the first occurrence of each element, in order.
RECURSIVE fromkeys(_)
fromkeys(xs) ==
  IF xs = <<>> THEN <<>>
  ELSE LET front == fromkeys(SubSeq(xs, 1, Len(xs) - 1))
           x     == xs[Len(xs)]
       IN  IF x \in Range(front) THEN front ELSE Append(front, x)

\* ------------------------------------------------------- program constants

MODEL_PRIORITY ==
  <<"gemini-2.5-flash", "gemini-2.0-flash",
    "gemini-2.5-flash-lite", "gemini-2.0-flash-lite">>

\* range(1, 21): the last numbered slot read.
NumSlots == 20

\* api_key[-4:] and len(api_key) > 4.
PreviewLen == 4

\* ------------------------------------------------------------- environment

GEMINI_API_KEY(n) == <<"GEMINI_API_KEY_", n>>
GOOGLE_API_KEY(n) == <<"GOOGLE_API_KEY_", n>>
GEMINI_API_KEYS == <<"GEMINI_API_KEYS", 0>>
GROQ_API_KEY == <<"GROQ_API_KEY", 0>>

\* os.getenv(name, default)
getenv(e, name, default) == IF name \in DOMAIN e THEN e[name] ELSE default

\* ------------------------------------------------------- credential loader

\* A loader that prefers the GOOGLE name of a slot.
RECURSIVE ScanSlotsGoogleFirst(_, _)
ScanSlotsGoogleFirst(e, n) ==
  IF n = 0 THEN <<>>
  ELSE LET first == getenv(e, GOOGLE_API_KEY(n), None)
           key   == IF ~Truthy(first)
                    THEN getenv(e, GEMINI_API_KEY(n), None)
                    ELSE first
       IN  ScanSlotsGoogleFirst(e, n - 1) \o (IF Truthy(key) THEN <<key>> ELSE <<>>)

\* Lines 48-55: slots 1..n in ascending order, the GEMINI name first and the
\* GOOGLE name when the GEMINI value is unset or empty.
RECURSIVE ScanSlots(_, _)
ScanSlots(e, n) ==
  IF n = 0 THEN <<>>
  ELSE LET first == getenv(e, GEMINI_API_KEY(n), None)
           key   == IF ~Truthy(first)
                    THEN getenv(e, GOOGLE_API_KEY(n), None)
                    ELSE first
       IN  ScanSlots(e, n - 1) \o (IF Truthy(key) THEN <<key>> ELSE <<>>)

\* A loader that drops the empty bulk entries but keeps the padding of the
\* others.
BulkKeysUnstripped(e) ==
  LET bulk_keys == getenv(e, GEMINI_API_KEYS, Str(<<>>))
      parts     == IF Truthy(bulk_keys) THEN split(bulk_keys.chars, ",") ELSE <<>>
      kept      == SelectSeq(parts, LAMBDA k : strip(k) # <<>>)
  IN  [n \in 1..Len(kept) |-> Str(kept[n])]

\* Lines 58-60: the comma-separated GEMINI_API_KEYS, each entry stripped,
\* empty entries dropped.
BulkKeys(e) ==
  LET bulk_keys == getenv(e, GEMINI_API_KEYS, Str(<<>>))
      parts     == IF Truthy(bulk_keys) THEN split(bulk_keys.chars, ",") ELSE <<>>
      kept      == SelectSeq(parts, LAMBDA k : strip(k) # <<>>)
  IN  [n \in 1..Len(kept) |-> Str(strip(kept[n]))]

\* Lines 44-60: the list `keys` before deduplication.
ScanKeys(e) == ScanSlots(e, NumSlots) \o BulkKeys(e)

\* A loader that keeps every scanned key.
KeepDuplicates(keys) == keys

\* A loader that removes duplicates but keeps the last occurrence of each.
RECURSIVE KeepLastOccurrence(_)
KeepLastOccurrence(keys) ==
  IF keys = <<>> THEN <<>>
  ELSE IF Head(keys) \in Range(Tail(keys))
       THEN KeepLastOccurrence(Tail(keys))
       ELSE <<Head(keys)>> \o KeepLastOccurrence(Tail(keys))

\* Lines 62-68: duplicates removed, the first occurrence kept.
RECURSIVE RemoveDuplicates(_)
RemoveDuplicates(keys) ==
  IF keys = <<>> THEN <<>>
  ELSE LET unique_keys == RemoveDuplicates(SubSeq(keys, 1, Len(keys) - 1))
           key         == keys[Len(keys)]
       IN  IF key \in Range(unique_keys)
           THEN unique_keys
           ELSE Append(unique_keys, key)

_load_api_keys(e) == RemoveDuplicates(ScanKeys(e))

\* GeminiAPIManager.__init__
GeminiAPIManager(id, e) ==
  [type |-> "GeminiAPIManager", id |-> id, api_keys |-> _load_api_keys(e)]

\* --------------------------------------------------- modelled environments

\* Credential strings: longer and not longer than the preview length.
KeyPool ==
  <<Str(<<"A", "I", "z", "a", "1">>), Str(<<"k", "2">>),
    Str(<<"A", "I", "z", "a", "3">>), Str(<<"k", "4">>)>>

KeyVals == {KeyPool[n] : n \in 1..NumKeyVals}

\* The environment holding the pairs <<name, value>> whose value is set.
MkEnv(pairs) ==
  LET set == {p \in pairs : p[2] # None}
  IN  [name \in {p[1] : p \in set} |-> (CHOOSE p \in set : p[1] = name)[2]]

\* " k , ,k2": two entries with padding and an empty entry between them.
BulkOf(k, k2) ==
  Str(<<" ">> \o k.chars \o <<" ", ",", " ", ",">> \o k2.chars)

\* Environments of the dispatcher's runs: slot 1 under both names and the
\* bulk list, the same value possibly in several places.
EnvsMain ==
  { MkEnv({<<GEMINI_API_KEY(1), g1>>, <<GOOGLE_API_KEY(1), o1>>,
           <<GEMINI_API_KEYS, b>>}) :
      g1 \in {None} \cup KeyVals,
      o1 \in {None} \cup KeyVals,
      b  \in {None} \cup {BulkOf(k, k2) : k \in KeyVals, k2 \in KeyVals} }

\* Environments of the loader's runs: slots 1, 2, 20 and 21, unset, empty
\* and set values, and bulk lists with padding, empty and repeated entries.
EnvsLoader ==
  { MkEnv({<<GEMINI_API_KEY(1), g1>>, <<GOOGLE_API_KEY(1), o1>>,
           <<GOOGLE_API_KEY(2), o2>>, <<GEMINI_API_KEY(NumSlots), g20>>,
           <<GEMINI_API_KEY(NumSlots + 1), g21>>, <<GEMINI_API_KEYS, b>>}) :
      g1  \in {None, Str(<<>>)} \cup KeyVals,
      o1  \in {None} \cup KeyVals,
      o2  \in {None, KeyPool[1], Str(<<" ">> \o KeyPool[1].chars)},
      g20 \in {None} \cup KeyVals,
      g21 \in {None, KeyPool[NumKeyVals + 1]},
      b   \in {None, Str(<<>>), Str(<<" ", ",">>), Str(KeyPool[1].chars \o <<",">>)}
              \cup {BulkOf(k, k2) : k \in KeyVals, k2 \in KeyVals} }

\* Credentials of 2, 4, 5 and 7 characters, one of them starting with three
\* dots and one spelling the placeholder of line 93.
PreviewKeys ==
  {Str(<<"k", "2">>), Str(<<"a", "b", "c", "d">>), Str(<<"A", "I", "z", "a", "1">>),
   Str(<<".", ".", ".", "a", "b", "c", "d">>),
   Str(<<"U", "n", "k", "n", "o", "w", "n">>)}

\* Environments with one credential, in slot 1.
EnvsPreview == { MkEnv({<<GEMINI_API_KEY(1), g1>>}) : g1 \in PreviewKeys }

\* Environments with none, one and two credentials.
EnvsCalls ==
  { MkEnv({<<GEMINI_API_KEY(1), g1>>, <<GEMINI_API_KEYS, b>>}) :
      g1 \in {None, KeyPool[1]}, b \in {None, KeyPool[2]} }

\* Environments of the Groq manager: GROQ_API_KEY unset, empty and set,
\* beside none or one Gemini credential.
EnvsGroq ==
  { MkEnv({<<GROQ_API_KEY, k>>, <<GEMINI_API_KEY(1), g1>>}) :
      k  \in {None, Str(<<>>), Str(<<"g", "s", "k", "1">>), Str(<<"g", "s", "k", "2">>)},
      g1 \in {None, KeyPool[1]} }

\* Environments of the comparison of the two managers: the Groq key unset,
\* empty or set, and no, one or two Gemini credentials.
EnvsTwin ==
  { MkEnv({<<GROQ_API_KEY, k>>, <<GEMINI_API_KEY(1), g1>>, <<GEMINI_API_KEY(2), g2>>}) :
      k  \in {None, Str(<<>>), Str(<<"g", "s", "k", "1">>)},
      g1 \in {None, KeyPool[1]},
      g2 \in {None, KeyPool[2]} }

PromptPool == <<Str(<<"p", "1">>), Str(<<"p", "2">>), Str(<<"p", "3">>)>>

Prompts == {PromptPool[n] : n \in 1..NumPrompts}

\* What a provider response's .text may be: a string, or None for a
\* response without candidates or text parts.
Texts == {Str(<<"[", "]">>), Str(<<"o", "k">>)}
ResponseTexts == Texts \cup {None}

\* The categories a failed provider call falls in.
ErrorKinds == {"auth", "quota", "rate_limit", "network", "malformed"}

Callers == 1..NumCallers

\* The single thread of control of a sequential run.
Sequential == {1}

\* ------------------------------------------------------------------- values

\* The exception a failed provider call raises, with the attempt it is of.
AttemptError(kind, ki, mi) ==
  [type |-> "Exception", kind |-> kind, at |-> <<ki, mi>>]

\* Line 136.
ExhaustedError(n, e) ==
  [type |-> "Exception",
   msg  |-> [template |-> "Unable to fetch response. All {} keys and models failed. Last error: {}",
             args     |-> <<[type |-> "int", val |-> n], e>>]]

\* A dispatcher that reports missing credentials as an exhausted sweep.
NoKeysAsExhausted == ExhaustedError(0, None)

\* Line 87.
NoKeysError ==
  [type |-> "Exception",
   msg  |-> [template |-> "No API keys found. Please check your .env file.",
             args     |-> <<>>]]

Return(text, model) == [type |-> "return", text |-> text, model |-> model]
Raise(exc) == [type |-> "raise", exc |-> exc]

\* Line 93.
KeyPreview(api_key) ==
  IF len(api_key) > PreviewLen
  THEN Str(<<".", ".", ".">> \o Suffix(api_key.chars, PreviewLen))
  ELSE Str(<<"U", "n", "k", "n", "o", "w", "n">>)

\* A status that counts the credentials whose attempts failed.
StatusWithFailedKeys(m) ==
  [total_keys          |-> Len(m.api_keys),
   available_models    |-> MODEL_PRIORITY,
   failed_keys         |-> Cardinality({ki \in 1..Len(m.api_keys) :
                                          \E c \in Callers : \E k \in 1..Len(log[c]) :
                                            log[c][k].ki = ki /\ log[c][k].res = "failed"}),
   current_model       |-> "Auto-switching",
   current_model_index |-> 0]

\* Lines 140-147.
StatusOf(m) ==
  [total_keys          |-> Len(m.api_keys),
   available_models    |-> MODEL_PRIORITY,
   failed_keys         |-> 0,
   current_model       |-> "Auto-switching",
   current_model_index |-> 0]

\* The three pages with a quiz generator: src/app.py,
\* src/pages/1_YouTube_Quiz.py and src/pages/2_Website_Quiz.py.
Pages == {"app", "youtube", "website"}

\* app.py lines 307-312 (and the same keys with the yt_ and web_ prefixes).
NoQuiz == [quiz_data |-> None, quiz_generated |-> FALSE, model_used |-> ""]

\* No Generate click was handled yet.
NoRun ==
  [page |-> "none", phase |-> "idle", num_questions |-> 0,
   urls_input |-> None, urls |-> <<>>,
   raw_response |-> None, clean_json |-> None, stage |-> "none"]

\* ------------------------------------------------------------ initial state

InitManager ==
  /\ _api_manager = None
  /\ constructed = 0
  /\ pc = [c \in Callers |-> "idle"]
  /\ api_manager = [c \in Callers |-> None]
  /\ prompt = [c \in Callers |-> None]
  /\ i = [c \in Callers |-> 0]
  /\ j = [c \in Callers |-> 0]
  /\ last_error = [c \in Callers |-> None]
  /\ key_preview = [c \in Callers |-> None]
  /\ log = [c \in Callers |-> <<>>]
  /\ clients = [c \in Callers |-> 0]
  /\ raised = [c \in Callers |-> None]
  /\ outcome = [c \in Callers |-> None]
  /\ status = [c \in Callers |-> None]
  /\ session_state = [p \in Pages |-> NoQuiz]
  /\ script_run = NoRun

Init == env \in EnvsMain /\ InitManager

InitLoader == env \in EnvsLoader /\ InitManager

InitCalls == env \in EnvsCalls /\ InitManager

InitGroq == env \in EnvsGroq /\ InitManager

InitTwin == env \in EnvsTwin /\ InitManager

InitPreview == env \in EnvsPreview /\ InitManager

\* ----------------------------------------------------------- get_api_manager

\* Line 161: the test of the global.
GamCheck(c) ==
  /\ pc[c] = "idle"
  /\ pc' = [pc EXCEPT ![c] = IF _api_manager = None THEN "gam_construct"
                                                     ELSE "gam_return"]
  /\ UNCHANGED <<ui, env, _api_manager, constructed, api_manager, locals, status>>

\* Line 162: the manager is constructed (the loader runs) and stored.
GamConstruct(c) ==
  /\ pc[c] = "gam_construct"
  /\ constructed' = constructed + 1
  /\ _api_manager' = GeminiAPIManager(constructed + 1, env)
  /\ pc' = [pc EXCEPT ![c] = "gam_return"]
  /\ UNCHANGED <<ui, env, api_manager, locals, status>>

\* Line 163: the global is read and returned.
GamReturn(c) ==
  /\ pc[c] = "gam_return"
  /\ api_manager' = [api_manager EXCEPT ![c] = _api_manager]
  /\ pc' = [pc EXCEPT ![c] = "idle"]
  /\ UNCHANGED <<ui, env, _api_manager, constructed, locals, status>>

\* ------------------------------------------------------ get_status and reset

get_status(c) ==
  /\ pc[c] = "idle"
  /\ api_manager[c] # None
  /\ status' = [status EXCEPT ![c] = StatusOf(api_manager[c])]
  /\ UNCHANGED <<ui, env, _api_manager, constructed, pc, api_manager, locals>>

\* A reset that forgets the credentials of the manager the caller holds.
ResetClearsKeys(c) ==
  /\ pc[c] = "idle"
  /\ api_manager[c] # None
  /\ _api_manager' = IF _api_manager.id = api_manager[c].id
                     THEN [_api_manager EXCEPT !.api_keys = <<>>]
                     ELSE _api_manager
  /\ api_manager' = [d \in Callers |->
                       IF api_manager[d] # None /\ api_manager[d].id = api_manager[c].id
                       THEN [api_manager[d] EXCEPT !.api_keys = <<>>]
                       ELSE api_manager[d]]
  /\ UNCHANGED <<ui, env, constructed, pc, locals, status>>

\* Lines 149-151: pass.
reset(c) ==
  /\ pc[c] = "idle"
  /\ api_manager[c] # None
  /\ UNCHANGED vars

\* --------------------------------------------------------- generate_content

\* A dispatcher without the guard of line 86.
NeverNotConfigured(api_keys) == FALSE

\* Line 86: `not self.api_keys`.
NotConfigured(api_keys) == api_keys = <<>>

\* A dispatcher that reports the preferred model whatever model answered.
ReturnsPreferredModel(response, model) ==
  Return(response.text, MODEL_PRIORITY[1])

\* Line 116: the tuple returned on success.
ReturnValue(response, model) == Return(response.text, model)

\* A dispatcher that keeps the first error it saw.
KeepFirstError(previous, e) == IF previous = None THEN e ELSE previous

\* Line 120: last_error = e.
RecordError(previous, e) == e

\* A dispatcher that gives up the credential on an authentication error.
SkipKeyOnAuth(e) == IF e.kind = "auth" THEN "key_sleep" ELSE "model_sleep"

\* A handler that waits for the rate limit to lift, which nothing signals.
WaitOnRateLimit(e) ==
  IF e.kind = "rate_limit" THEN "rate_wait" ELSE "model_sleep"

\* Lines 118-128: every exception is handled the same way, the delay and
\* then the next model.
AfterFailure(e) == "model_sleep"

\* An inner loop that skips every other model.
SkipModel(mi) == mi + 2

\* Line 101: the inner for loop's step.
NextModel(mi) == mi + 1

\* A sweep that shortens the prompt by its last character after each failed
\* model.
ContentsCut(p, mi) ==
  IF mi = 1 \/ p.chars = <<>> THEN p
  ELSE Str(SubSeq(p.chars, 1, Len(p.chars) - 1))

\* Lines 106-109 (contents=prompt) and groq_api_manager.py lines 79-85
\* ("content": prompt): what the attempt on model mi sends.
Contents(p, mi) == p

\* An outer loop that skips every other credential.
SkipKey(ki) == ki + 2

\* Line 92: the outer for loop's step.
NextKey(ki) == ki + 1

\* A call ended: its frame's locals are gone.
EndCall(c) ==
  /\ pc' = [pc EXCEPT ![c] = "idle"]
  /\ i' = [i EXCEPT ![c] = 0]
  /\ j' = [j EXCEPT ![c] = 0]
  /\ last_error' = [last_error EXCEPT ![c] = None]
  /\ key_preview' = [key_preview EXCEPT ![c] = None]

\* A sweep that starts at the second credential once some call has failed.
StartAfterFailure(c) ==
  IF \E d \in Callers : outcome[d].type = "raise" THEN 2 ELSE 1

\* Line 92: enumerate(self.api_keys) starts every call at the first
\* credential.
StartKey(c) == 1

\* Lines 86-89: the call starts; without credentials it raises at once.
GenStart(c, p) ==
  /\ pc[c] = "idle"
  /\ api_manager[c] # None
  /\ prompt' = [prompt EXCEPT ![c] = p]
  /\ log' = [log EXCEPT ![c] = <<>>]
  /\ clients' = [clients EXCEPT ![c] = 0]
  /\ raised' = [raised EXCEPT ![c] = None]
  /\ IF NotConfigured(api_manager[c].api_keys)
     THEN /\ outcome' = [outcome EXCEPT ![c] = Raise(NoKeysError)]
          /\ EndCall(c)
     ELSE /\ outcome' = [outcome EXCEPT ![c] = None]
          /\ last_error' = [last_error EXCEPT ![c] = None]
          /\ i' = [i EXCEPT ![c] = StartKey(c)]
          /\ pc' = [pc EXCEPT ![c] = "key"]
          /\ UNCHANGED <<j, key_preview>>
  /\ UNCHANGED <<ui, env, _api_manager, constructed, api_manager, status>>

\* Lines 92-98: the next credential; its preview is printed and its client
\* built.  genai.Client only stores the (non-empty) key and does not fail.
UseKey(c) ==
  /\ pc[c] = "key"
  /\ i[c] <= Len(api_manager[c].api_keys)
  /\ key_preview' = [key_preview EXCEPT ![c] = KeyPreview(api_manager[c].api_keys[i[c]])]
  /\ clients' = [clients EXCEPT ![c] = @ + 1]
  /\ j' = [j EXCEPT ![c] = 1]
  /\ pc' = [pc EXCEPT ![c] = "model"]
  /\ UNCHANGED <<ui, env, _api_manager, constructed, api_manager, status,
                 prompt, i, last_error, log, raised, outcome>>

\* Lines 134-136: the outer loop ran out of credentials.
Exhausted(c) ==
  /\ pc[c] = "key"
  /\ i[c] > Len(api_manager[c].api_keys)
  /\ outcome' = [outcome EXCEPT ![c] =
                   Raise(ExhaustedError(Len(api_manager[c].api_keys), last_error[c]))]
  /\ EndCall(c)
  /\ UNCHANGED <<ui, env, _api_manager, constructed, api_manager, status,
                 prompt, log, clients, raised>>

\* Lines 101-110: the provider is called with the current key and the next
\* model.
IssueAttempt(c) ==
  /\ pc[c] = "model"
  /\ j[c] <= Len(MODEL_PRIORITY)
  /\ log' = [log EXCEPT ![c] =
               Append(@, [ki     |-> i[c],
                          key    |-> api_manager[c].api_keys[i[c]],
                          mi     |-> j[c],
                          model  |-> MODEL_PRIORITY[j[c]],
                          prompt |-> Contents(prompt[c], j[c]),
                          res    |-> "pending",
                          text   |-> None])]
  /\ pc' = [pc EXCEPT ![c] = "await"]
  /\ UNCHANGED <<ui, env, _api_manager, constructed, api_manager, status,
                 prompt, i, j, last_error, key_preview, clients, raised, outcome>>

\* Lines 130-131: the inner loop ran out of models.
AllModelsFailed(c) ==
  /\ pc[c] = "model"
  /\ j[c] > Len(MODEL_PRIORITY)
  /\ pc' = [pc EXCEPT ![c] = "key_sleep"]
  /\ UNCHANGED <<ui, env, _api_manager, constructed, api_manager, status, locals>>

\* Lines 107-116: the provider answers with a response whose text is t.
ProviderReturns(c, t) ==
  /\ pc[c] = "await"
  /\ log' = [log EXCEPT ![c][Len(log[c])].res = "ok",
                         ![c][Len(log[c])].text = t]
  /\ outcome' = [outcome EXCEPT ![c] =
                   ReturnValue([text |-> t], MODEL_PRIORITY[j[c]])]
  /\ EndCall(c)
  /\ UNCHANGED <<ui, env, _api_manager, constructed, api_manager, status,
                 prompt, clients, raised>>

\* Lines 118-124: the provider call raises an exception of some category.
ProviderRaises(c, kind) ==
  LET e == AttemptError(kind, i[c], j[c])
  IN  /\ pc[c] = "await"
      /\ log' = [log EXCEPT ![c][Len(log[c])].res = "failed"]
      /\ raised' = [raised EXCEPT ![c] = e]
      /\ last_error' = [last_error EXCEPT ![c] = RecordError(@, e)]
      /\ pc' = [pc EXCEPT ![c] = AfterFailure(e)]
      /\ UNCHANGED <<ui, env, _api_manager, constructed, api_manager, status,
                     prompt, i, j, key_preview, clients, outcome>>

\* A manager that keeps one model index for all the calls in progress.
SleepModelShared(c) ==
  /\ pc[c] = "model_sleep"
  /\ j' = [d \in Callers |-> IF pc[d] = "idle" THEN j[d] ELSE NextModel(j[d])]
  /\ pc' = [pc EXCEPT ![c] = "model"]
  /\ UNCHANGED <<ui, env, _api_manager, constructed, api_manager, status,
                 prompt, i, last_error, key_preview, log, clients, raised, outcome>>

\* Line 127: time.sleep(2), then the next model.
SleepModel(c) ==
  /\ pc[c] = "model_sleep"
  /\ j' = [j EXCEPT ![c] = NextModel(@)]
  /\ pc' = [pc EXCEPT ![c] = "model"]
  /\ UNCHANGED <<ui, env, _api_manager, constructed, api_manager, status,
                 prompt, i, last_error, key_preview, log, clients, raised, outcome>>

\* Line 132: time.sleep(1), then the next credential.
SleepKey(c) ==
  /\ pc[c] = "key_sleep"
  /\ i' = [i EXCEPT ![c] = NextKey(@)]
  /\ pc' = [pc EXCEPT ![c] = "key"]
  /\ UNCHANGED <<ui, env, _api_manager, constructed, api_manager, status,
                 prompt, j, last_error, key_preview, log, clients, raised, outcome>>

\* ------------------------------------------------------------ GroqAPIManager

\* src/groq_api_manager.py lines 25-30.
GROQ_MODEL_PRIORITY ==
  <<"llama-3.3-70b-versatile", "llama-3.1-8b-instant",
    "mixtral-8x7b-32768", "gemma2-9b-it">>

\* A manager that builds a client whatever the key is.
GroqClientAlways(api_key) == [type |-> "Groq", api_key |-> api_key]

\* Lines 34-36: the client exists when the key is truthy.
GroqClient(api_key) ==
  IF Truthy(api_key) THEN [type |-> "Groq", api_key |-> api_key] ELSE None

\* Lines 32-53.
GroqAPIManager(e) ==
  LET key == getenv(e, GROQ_API_KEY, None)
  IN  [type |-> "GroqAPIManager", api_key |-> key, client |-> GroqClient(key)]

\* Line 69.
GroqNotInitialized ==
  [type |-> "Exception",
   msg  |-> [template |-> "Groq Client not initialized. Check if GROQ_API_KEY is set in .env",
             args     |-> <<>>]]

\* Line 108.
GroqExhaustedError(e) ==
  [type |-> "Exception",
   msg  |-> [template |-> "Unable to fetch response from Groq. Last error: {}",
             args     |-> <<e>>]]

\* Lines 112-116.
GroqStatusOf(m) ==
  [provider           |-> "Groq",
   available_models   |-> GROQ_MODEL_PRIORITY,
   current_key_status |-> IF m.client # None THEN "Active" ELSE "Missing"]

\* src/shared/quiz_utils.py line 30: the module-level manager.
GroqConstruct(c) ==
  /\ pc[c] = "idle"
  /\ api_manager[c] = None
  /\ api_manager' = [api_manager EXCEPT ![c] = GroqAPIManager(env)]
  /\ UNCHANGED <<ui, env, _api_manager, constructed, pc, locals, status>>

\* Lines 110-116.
groq_get_status(c) ==
  /\ pc[c] = "idle"
  /\ api_manager[c] # None
  /\ status' = [status EXCEPT ![c] = GroqStatusOf(api_manager[c])]
  /\ UNCHANGED <<ui, env, _api_manager, constructed, pc, api_manager, locals>>

\* Lines 68-71: the call starts; without a client it raises at once.
GroqGenStart(c, p) ==
  /\ pc[c] = "idle"
  /\ api_manager[c] # None
  /\ prompt' = [prompt EXCEPT ![c] = p]
  /\ log' = [log EXCEPT ![c] = <<>>]
  /\ clients' = [clients EXCEPT ![c] = 0]
  /\ raised' = [raised EXCEPT ![c] = None]
  /\ IF api_manager[c].client = None
     THEN /\ outcome' = [outcome EXCEPT ![c] = Raise(GroqNotInitialized)]
          /\ EndCall(c)
     ELSE /\ outcome' = [outcome EXCEPT ![c] = None]
          /\ last_error' = [last_error EXCEPT ![c] = None]
          /\ j' = [j EXCEPT ![c] = 1]
          /\ pc' = [pc EXCEPT ![c] = "groq_model"]
          /\ UNCHANGED <<i, key_preview>>
  /\ UNCHANGED <<ui, env, _api_manager, constructed, api_manager, status>>

\* Lines 74-88: the provider is called with the next model.
GroqIssueAttempt(c) ==
  /\ pc[c] = "groq_model"
  /\ j[c] <= Len(GROQ_MODEL_PRIORITY)
  /\ log' = [log EXCEPT ![c] =
               Append(@, [ki     |-> 1,
                          key    |-> api_manager[c].client.api_key,
                          mi     |-> j[c],
                          model  |-> GROQ_MODEL_PRIORITY[j[c]],
                          prompt |-> Contents(prompt[c], j[c]),
                          res    |-> "pending",
                          text   |-> None])]
  /\ pc' = [pc EXCEPT ![c] = "groq_await"]
  /\ UNCHANGED <<ui, env, _api_manager, constructed, api_manager, status,
                 prompt, i, j, last_error, key_preview, clients, raised, outcome>>

\* Lines 107-108: the loop ran out of models.
GroqExhausted(c) ==
  /\ pc[c] = "groq_model"
  /\ j[c] > Len(GROQ_MODEL_PRIORITY)
  /\ outcome' = [outcome EXCEPT ![c] = Raise(GroqExhaustedError(last_error[c]))]
  /\ EndCall(c)
  /\ UNCHANGED <<ui, env, _api_manager, constructed, api_manager, status,
                 prompt, log, clients, raised>>

\* Lines 90-94: the provider answers with a message whose content is t.
GroqReturns(c, t) ==
  /\ pc[c] = "groq_await"
  /\ log' = [log EXCEPT ![c][Len(log[c])].res = "ok",
                         ![c][Len(log[c])].text = t]
  /\ outcome' = [outcome EXCEPT ![c] = Return(t, GROQ_MODEL_PRIORITY[j[c]])]
  /\ EndCall(c)
  /\ UNCHANGED <<ui, env, _api_manager, constructed, api_manager, status,
                 prompt, clients, raised>>

\* A loop that passes over the model after a failed one.
GroqSkipModel(mi) == mi + 2

\* Line 74: the for loop's step.
GroqNextModel(mi) == mi + 1

\* A manager that gives up the sweep at the first failed model.
GroqStopsOnFailure(c, kind) ==
  LET e == AttemptError(kind, 1, j[c])
  IN  /\ pc[c] = "groq_await"
      /\ log' = [log EXCEPT ![c][Len(log[c])].res = "failed"]
      /\ raised' = [raised EXCEPT ![c] = e]
      /\ last_error' = [last_error EXCEPT ![c] = e]
      /\ j' = [j EXCEPT ![c] = Len(GROQ_MODEL_PRIORITY) + 1]
      /\ pc' = [pc EXCEPT ![c] = "groq_model"]
      /\ UNCHANGED <<ui, env, _api_manager, constructed, api_manager, status,
                     prompt, i, key_preview, clients, outcome>>

\* Lines 96-105: the call raises; the error is kept and the next model is
\* tried, without a pause.
GroqRaises(c, kind) ==
  LET e == AttemptError(kind, 1, j[c])
  IN  /\ pc[c] = "groq_await"
      /\ log' = [log EXCEPT ![c][Len(log[c])].res = "failed"]
      /\ raised' = [raised EXCEPT ![c] = e]
      /\ last_error' = [last_error EXCEPT ![c] = e]
      /\ j' = [j EXCEPT ![c] = GroqNextModel(@)]
      /\ pc' = [pc EXCEPT ![c] = "groq_model"]
      /\ UNCHANGED <<ui, env, _api_manager, constructed, api_manager, status,
                     prompt, i, key_preview, clients, outcome>>

\* ------------------------------------------------------------------ pages

\* Line 133 of the Website page: `len(urls) > 5`, `urls[:5]`.
MaxUrls == 5

\* What the model may answer: a bare array, an array inside prose, an
\* array longer than asked for, brackets in the wrong order, an object, a
\* null, a number, strings, text that is no JSON, an empty array, an object
\* holding an array, an unclosed array, an array of objects, a large object.
RawTexts ==
  {Str(<<"[", "1", "]">>),
   Str(<<"x", "[", "1", ",", "2", "]", "y">>),
   Str(<<"[", "1", ",", "2", ",", "3", ",", "4", ",", "5", ",", "6", "]">>),
   Str(<<"]", "[">>),
   Str(<<"]", " ", "[", "1", "]">>),
   Str(<<"{", "\"", "a", "\"", ":", "1", "}">>),
   Str(<<"n", "u", "l", "l">>),
   Str(<<"7">>),
   Str(<<"\"", "a", "b", "\"">>),
   Str(<<"\"", "a", "b", "c", "d", "e", "f", "\"">>),
   Str(<<"o", "o", "p", "s">>),
   Str(<<" ", "[", "]", " ">>),
   Str(<<"{", "\"", "a", "\"", ":", "[", "1", "]", "}">>),
   Str(<<"[", "1">>),
   Str(<<"x", "[", "{", "\"", "q", "\"", ":", "1", "}", "]">>),
   Str(<<"{", "\"", "a", "\"", ":", "1", ",", "\"", "b", "\"", ":", "2", ",", "\"", "c", "\"", ":", "3", ",", "\"", "d", "\"", ":", "4", ",", "\"", "e", "\"", ":", "5", ",", "\"", "f", "\"", ":", "6", "}">>)}

\* What the URL box may hold: nothing, blanks, no URL, one URL, a repeated
\* URL, two URLs without a separator, URLs in brackets and quotes, five and
\* six different URLs, and six different URLs among eight.
UrlInputs ==
  {Str(<<>>),
   Str(<<" ", " ">>),
   Str(<<"a", "b", "c">>),
   Str(<<"h", "t", "t", "p", ":", "/", "/", "a">>),
   Str(<<"h", "t", "t", "p", ":", "/", "/", "a", "\n", "h", "t", "t", "p", "s", ":", "/", "/", "b", "\n", "h", "t", "t", "p", ":", "/", "/", "a">>),
   Str(<<"h", "t", "t", "p", ":", "/", "/", "a", "h", "t", "t", "p", "s", ":", "/", "/", "b">>),
   Str(<<"<", "h", "t", "t", "p", ":", "/", "/", "a", ">", " ", "'", "h", "t", "t", "p", "s", ":", "/", "/", "b", "'">>),
   Str(<<"h", "t", "t", "p", ":", "/", "/", "a", " ", "h", "t", "t", "p", ":", "/", "/", "b", " ", "h", "t", "t", "p", ":", "/", "/", "c", " ", "h", "t", "t", "p", ":", "/", "/", "d", " ", "h", "t", "t", "p", ":", "/", "/", "e">>),
   Str(<<"h", "t", "t", "p", ":", "/", "/", "a", " ", "h", "t", "t", "p", ":", "/", "/", "b", " ", "h", "t", "t", "p", ":", "/", "/", "c", " ", "h", "t", "t", "p", ":", "/", "/", "d", " ", "h", "t", "t", "p", ":", "/", "/", "e", " ", "h", "t", "t", "p", ":", "/", "/", "f">>),
   Str(<<"h", "t", "t", "p", ":", "/", "/", "b", " ", "h", "t", "t", "p", ":", "/", "/", "a", " ", "h", "t", "t", "p", ":", "/", "/", "b", " ", "h", "t", "t", "p", ":", "/", "/", "c", " ", "h", "t", "t", "p", ":", "/", "/", "d", " ", "h", "t", "t", "p", ":", "/", "/", "e", " ", "h", "t", "t", "p", ":", "/", "/", "f", " ", "h", "t", "t", "p", ":", "/", "/", "a">>)}

\* The video URL box: empty or filled.
VideoUrls == {Str(<<>>), Str(<<"h", "t", "t", "p", ":", "/", "/", "y">>)}

\* The number-of-questions box (min_value 5).
QuestionCounts == {5, 6}

\* What generate_questions may end in for a page: a failure of the manager
\* behind it, or the text and the model of a successful call.  app.py calls
\* the Gemini manager (line 301), the two pages the Groq manager of
\* shared/quiz_utils.py (line 143).
Generations(page) ==
  IF page = "app"
  THEN {Raise(NoKeysError)}
         \cup {Return(t, MODEL_PRIORITY[1]) : t \in RawTexts \cup {None}}
  ELSE {Raise(GroqNotInitialized)}
         \cup {Return(t, GROQ_MODEL_PRIORITY[1]) : t \in RawTexts \cup {None}}

\* A handler that keeps the quiz of the session while it generates.
KeepQuiz(page) == session_state

\* app.py lines 320-321, YouTube lines 156-157, Website lines 140-141.
ClearQuiz(page) ==
  [session_state EXCEPT ![page].quiz_data = None, ![page].quiz_generated = FALSE]

\* What a handled click leaves in script_run.
Run(page, phase, stage) == [NoRun EXCEPT !.page = page, !.phase = phase, !.stage = stage]

\* app.py lines 315-327 and 363-364, YouTube lines 152-165 and 191-192: a
\* Generate click with the URL box holding video_url; has_text tells
\* whether get_transcript returns a text.
GenerateFromVideo(page, video_url, num_questions, has_text) ==
  /\ page \in {"app", "youtube"}
  /\ script_run.phase # "generating"
  /\ IF ~Truthy(video_url)
     THEN /\ script_run' = Run(page, "done", "warning")
          /\ UNCHANGED session_state
     ELSE /\ session_state' = ClearQuiz(page)
          /\ script_run' =
               IF has_text
               THEN [Run(page, "generating", "none") EXCEPT !.num_questions = num_questions]
               ELSE Run(page, "done", "no_text")
  /\ UNCHANGED <<env, _api_manager, constructed, pc, api_manager, locals, status>>

\* Website line 135.
FirstUrls(urls) == IF Len(urls) > MaxUrls THEN SubSeq(urls, 1, MaxUrls) ELSE urls

\* Website lines 127-135: the URLs of the request.
RequestUrls(urls_input) == FirstUrls(fromkeys(findall(urls_input.chars, 1)))

\* Website lines 121-163: a Generate click with the URL box holding
\* urls_input; every URL of the request is scraped once, and fetched holds
\* the positions of the URLs whose scrape returns a text.
GenerateFromWebsites(urls_input, num_questions, fetched) ==
  LET urls == RequestUrls(urls_input)
  IN  /\ script_run.phase # "generating"
      /\ IF strip(urls_input.chars) = <<>> \/ urls = <<>>
         THEN /\ script_run' = Run("website", "done", "warning")
              /\ UNCHANGED session_state
         ELSE /\ session_state' = ClearQuiz("website")
              /\ script_run' =
                   IF fetched \cap (1..Len(urls)) # {}
                   THEN [Run("website", "generating", "none") EXCEPT
                           !.num_questions = num_questions,
                           !.urls_input = urls_input, !.urls = urls]
                   ELSE [Run("website", "done", "no_text") EXCEPT
                           !.urls_input = urls_input, !.urls = urls]
      /\ UNCHANGED <<env, _api_manager, constructed, pc, api_manager, locals, status>>

\* An extraction that takes the text from the first '[' to the end.
ExtractToEnd(raw_response) ==
  LET json_start == find(raw_response, "[")
  IN  IF json_start # -1 THEN Slice(raw_response, json_start, Len(raw_response))
      ELSE strip(raw_response)

\* app.py lines 337-344: the text from the first '[' through the last ']'
\* when the last ']' is after the first '[', else the whole stripped text.
ExtractOrdered(raw_response) ==
  LET json_start == find(raw_response, "[")
      json_end   == rfind(raw_response, "]")
  IN  IF json_start # -1 /\ json_end # -1 /\ json_end > json_start
      THEN Slice(raw_response, json_start, json_end + 1)
      ELSE strip(raw_response)

\* YouTube lines 172-178 and Website lines 174-180: the same without the
\* test of the order.
ExtractAny(raw_response) ==
  LET json_start == find(raw_response, "[")
      json_end   == rfind(raw_response, "]")
  IN  IF json_start # -1 /\ json_end # -1
      THEN Slice(raw_response, json_start, json_end + 1)
      ELSE strip(raw_response)

Extract(page, raw_response) ==
  IF page = "app" THEN ExtractOrdered(raw_response) ELSE ExtractAny(raw_response)

\* A page that stores the answer as long as it is.
NoCut(quiz_data, num_questions) == quiz_data

\* Website lines 185-186: len(quiz_data) and quiz_data[:num_questions].
\* None and an int have no len, and a dict takes no slice: TypeError.
EnforceCount(quiz_data, num_questions) ==
  IF ~HasLen(quiz_data) THEN TypeError
  ELSE IF LenOf(quiz_data) <= num_questions THEN quiz_data
  ELSE IF quiz_data.type = "list" THEN List(SubSeq(quiz_data.items, 1, num_questions))
  ELSE IF quiz_data.type = "str" THEN Str(SubSeq(quiz_data.chars, 1, num_questions))
  ELSE TypeError

\* What a page stores of the decoded value: app.py line 350 and YouTube
\* line 180 the value itself, Website lines 182-188 the value cut to the
\* question count.
ToStore(page, value, num_questions) ==
  IF page = "website" THEN EnforceCount(value, num_questions) ELSE value

\* app.py lines 331-362, YouTube lines 169-190, Website lines 171-196:
\* generate_questions ended in result; the text is extracted, decoded and
\* stored.  A text of None has no find (AttributeError), which the
\* handler's `except Exception` takes like a failed generation.
Generated(result) ==
  LET page == script_run.page
      done == [script_run EXCEPT !.phase = "done"]
  IN  /\ script_run.phase = "generating"
      /\ IF result.type = "raise" \/ result.text = None
         THEN /\ script_run' = [done EXCEPT !.stage = "ai_error"]
              /\ UNCHANGED session_state
         ELSE LET clean_json == Extract(page, result.text.chars)
                  value      == loads(clean_json)
                  quiz_data  == IF value = JSONDecodeError THEN value
                                ELSE ToStore(page, value, script_run.num_questions)
                  seen       == [done EXCEPT !.raw_response = result.text,
                                             !.clean_json = Str(clean_json)]
              IN  IF quiz_data = JSONDecodeError
                  THEN /\ script_run' = [seen EXCEPT !.stage = "decode_error"]
                       /\ UNCHANGED session_state
                  ELSE IF quiz_data = TypeError
                  THEN /\ script_run' = [seen EXCEPT !.stage = "error"]
                       /\ UNCHANGED session_state
                  ELSE /\ script_run' = [seen EXCEPT !.stage = "stored"]
                       /\ session_state' =
                            [session_state EXCEPT ![page] =
                               [quiz_data      |-> quiz_data,
                                quiz_generated |-> TRUE,
                                model_used     |-> result.model]]
      /\ UNCHANGED <<env, _api_manager, constructed, pc, api_manager, locals, status>>

\* app.py line 367, YouTube line 196, Website line 200: the quiz, and the
\* Start New Quiz button with it, is shown.
QuizShown(page) ==
  session_state[page].quiz_generated /\ IsTrue(session_state[page].quiz_data)

\* app.py lines 448-451, YouTube lines 224-227, Website lines 228-231.
StartNewQuiz(page) ==
  /\ script_run.phase # "generating"
  /\ QuizShown(page)
  /\ session_state' = ClearQuiz(page)
  /\ script_run' = Run(page, "done", "reset")
  /\ UNCHANGED <<env, _api_manager, constructed, pc, api_manager, locals, status>>

\* ------------------------------------------------------------ specifications

Next ==
  \E c \in Sequential :
    \/ GamCheck(c)
    \/ GamConstruct(c)
    \/ GamReturn(c)
    \/ get_status(c)
    \/ reset(c)
    \/ \E p \in Prompts : GenStart(c, p)
    \/ UseKey(c)
    \/ Exhausted(c)
    \/ IssueAttempt(c)
    \/ AllModelsFailed(c)
    \/ \E t \in ResponseTexts : ProviderReturns(c, t)
    \/ \E kind \in ErrorKinds : ProviderRaises(c, kind)
    \/ SleepModel(c)
    \/ SleepKey(c)

Spec == Init /\ [][Next]_vars

\* The loader alone, over the wider set of environments.
NextLoader ==
  \E c \in Sequential : GamCheck(c) \/ GamConstruct(c) \/ GamReturn(c)

SpecLoader == InitLoader /\ [][NextLoader]_vars

\* Two runs of the page script (src/app.py) on the shared module, one after
\* the other: a caller steps only while the other is between calls.
Sessions == {1, 2}

NextCalls ==
  \E c \in Sessions :
    /\ \A d \in Callers \ {c} : pc[d] = "idle"
    /\ \/ GamCheck(c)
       \/ GamConstruct(c)
       \/ GamReturn(c)
       \/ \E p \in Prompts : GenStart(c, p)
       \/ UseKey(c)
       \/ Exhausted(c)
       \/ IssueAttempt(c)
       \/ AllModelsFailed(c)
       \/ \E t \in ResponseTexts : ProviderReturns(c, t)
       \/ \E kind \in ErrorKinds : ProviderRaises(c, kind)
       \/ SleepModel(c)
       \/ SleepKey(c)

SpecCalls == InitCalls /\ [][NextCalls]_vars

\* The provider's answers in the interleaved runs: a text, a response
\* without text, and failures of two categories.
ConcTexts == {Str(<<"o", "k">>), None}
ConcErrorKinds == {"rate_limit", "network"}

\* Two runs of the page script in two threads, interleaved step by step;
\* each thread has its own prompt.
NextConc ==
  \E c \in Sessions :
    \/ GamCheck(c)
    \/ GamConstruct(c)
    \/ GamReturn(c)
    \/ GenStart(c, PromptPool[c])
    \/ UseKey(c)
    \/ Exhausted(c)
    \/ IssueAttempt(c)
    \/ AllModelsFailed(c)
    \/ \E t \in ConcTexts : ProviderReturns(c, t)
    \/ \E kind \in ConcErrorKinds : ProviderRaises(c, kind)
    \/ SleepModel(c)
    \/ SleepKey(c)

SpecConc == InitCalls /\ [][NextConc]_vars

\* The calling thread keeps running, a sleep ends, and every provider call
\* returns or raises.
Fairness ==
  \A c \in Sequential :
    /\ WF_vars(UseKey(c))
    /\ WF_vars(Exhausted(c))
    /\ WF_vars(IssueAttempt(c))
    /\ WF_vars(AllModelsFailed(c))
    /\ WF_vars(SleepModel(c))
    /\ WF_vars(SleepKey(c))
    /\ WF_vars((\E t \in ResponseTexts : ProviderReturns(c, t))
                 \/ (\E kind \in ErrorKinds : ProviderRaises(c, kind)))

SpecLive == Init /\ [][Next]_vars /\ Fairness

\* The Groq manager of src/shared/quiz_utils.py and its calls.
GroqStep(c) ==
  \/ GroqConstruct(c)
  \/ groq_get_status(c)
  \/ \E p \in Prompts : GroqGenStart(c, p)
  \/ GroqIssueAttempt(c)
  \/ GroqExhausted(c)
  \/ \E t \in ResponseTexts : GroqReturns(c, t)
  \/ \E kind \in ErrorKinds : GroqRaises(c, kind)

NextGroq == \E c \in Sequential : GroqStep(c)

SpecGroq == InitGroq /\ [][NextGroq]_vars

\* The two managers side by side: app.py's dispatcher (caller 1) and the
\* quiz pages' Groq manager (caller 2), each called while the other is
\* between calls, with the same texts and failures on offer.
Gemini == 1
Groq == 2

Between(c) == pc[c] = "idle"

NextTwin ==
  \/ Between(Groq) /\ GamCheck(Gemini)
  \/ Between(Groq) /\ GamConstruct(Gemini)
  \/ Between(Groq) /\ GamReturn(Gemini)
  \/ Between(Groq) /\ \E p \in Prompts : GenStart(Gemini, p)
  \/ Between(Groq) /\ UseKey(Gemini)
  \/ Between(Groq) /\ Exhausted(Gemini)
  \/ Between(Groq) /\ IssueAttempt(Gemini)
  \/ Between(Groq) /\ AllModelsFailed(Gemini)
  \/ Between(Groq) /\ \E t \in ConcTexts : ProviderReturns(Gemini, t)
  \/ Between(Groq) /\ \E kind \in ConcErrorKinds : ProviderRaises(Gemini, kind)
  \/ Between(Groq) /\ SleepModel(Gemini)
  \/ Between(Groq) /\ SleepKey(Gemini)
  \/ Between(Gemini) /\ GroqConstruct(Groq)
  \/ Between(Gemini) /\ \E p \in Prompts : GroqGenStart(Groq, p)
  \/ Between(Gemini) /\ GroqIssueAttempt(Groq)
  \/ Between(Gemini) /\ GroqExhausted(Groq)
  \/ Between(Gemini) /\ \E t \in ConcTexts : GroqReturns(Groq, t)
  \/ Between(Gemini) /\ \E kind \in ConcErrorKinds : GroqRaises(Groq, kind)

SpecTwin == InitTwin /\ [][NextTwin]_vars

\* One browser session on one of the three pages (each page keeps its quiz
\* under keys of its own): the first click tells which.
InitPages == env = MkEnv({}) /\ InitManager

OnPage(page) == script_run.page \in {"none", page}

NextPages ==
  \/ \E page \in {"app", "youtube"}, video_url \in VideoUrls, has_text \in BOOLEAN :
       OnPage(page) /\ GenerateFromVideo(page, video_url, 5, has_text)
  \/ \E urls_input \in UrlInputs, num_questions \in QuestionCounts,
        fetched \in {{}, {1}, {MaxUrls}} :
       OnPage("website") /\ GenerateFromWebsites(urls_input, num_questions, fetched)
  \/ \E result \in Generations(script_run.page) : Generated(result)
  \/ \E page \in Pages : OnPage(page) /\ StartNewQuiz(page)

SpecPages == InitPages /\ [][NextPages]_vars

\* The whole program over credentials of several lengths.
SpecPreview == InitPreview /\ [][Next]_vars

\* ------------------------------------------------------------------- claims

NumModels == Len(MODEL_PRIORITY)

\* The credentials of the manager a caller holds.
Keys(c) == IF api_manager[c] = None THEN <<>> ELSE api_manager[c].api_keys

Returned(c) == outcome[c].type = "return"
Failed(c) == outcome[c].type = "raise"

ExhaustedTemplate == ExhaustedError(0, None).msg.template

\* The k-th attempt of a call (k from 1) is of credential (k-1) div M and
\* model (k-1) mod M, counted from 1.
InSweepOrder(c) ==
  \A k \in 1..Len(log[c]) :
    /\ log[c][k].ki = ((k - 1) \div NumModels) + 1
    /\ log[c][k].mi = ((k - 1) % NumModels) + 1
    /\ log[c][k].key = Keys(c)[log[c][k].ki]
    /\ log[c][k].model = MODEL_PRIORITY[log[c][k].mi]

\* C1: as soon as one provider call of a sweep succeeds, the call is over,
\* it returns that response's text and that attempt's model, every attempt
\* before it (in sweep order) failed, and it stays the last attempt issued.
C1_FirstSuccessWins ==
  \A c \in Callers :
    /\ (\E k \in 1..Len(log[c]) : log[c][k].res = "ok") =>
         LET n == Len(log[c])
         IN  /\ log[c][n].res = "ok"
             /\ \A k \in 1..(n - 1) : log[c][k].res = "failed"
             /\ InSweepOrder(c)
             /\ pc[c] \in {"idle", "gam_construct", "gam_return"}
             /\ outcome[c] = Return(log[c][n].text, log[c][n].model)
    /\ Returned(c) => log[c] # <<>> /\ log[c][Len(log[c])].res = "ok"

\* A call returned after a success under the second credential.
C1_Witness ==
  \E c \in Callers :
    /\ Returned(c)
    /\ Len(log[c]) > NumModels + 1
    /\ outcome[c].model # MODEL_PRIORITY[1]

\* C2: a manager without credentials never issues a provider call and never
\* builds a client, and every generate_content call on it, whatever the
\* prompt, has ended with the configuration error in its first step.
C2_NoKeysFailsAtOnce ==
  \A c \in Callers :
    (api_manager[c] # None /\ Keys(c) = <<>>) =>
      /\ log[c] = <<>>
      /\ clients[c] = 0
      /\ pc[c] \in {"idle", "gam_construct", "gam_return"}
      /\ prompt[c] # None => outcome[c] = Raise(NoKeysError)

\* A call with the second prompt on a manager without credentials.
C2_Witness ==
  \E c \in Callers :
    /\ api_manager[c] # None
    /\ Keys(c) = <<>>
    /\ prompt[c] = PromptPool[2]
    /\ outcome[c] = Raise(NoKeysError)

\* C3: a finished call on a configured manager that did not return has
\* raised the exhaustion error, after exactly one failed attempt of every
\* (credential, model) pair.
C3_ExhaustionAfterAllPairs ==
  \A c \in Callers :
    (pc[c] = "idle" /\ outcome[c] # None /\ ~Returned(c) /\ Keys(c) # <<>>) =>
      /\ Failed(c)
      /\ outcome[c].exc.msg.template = ExhaustedTemplate
      /\ Len(log[c]) = Len(Keys(c)) * NumModels
      /\ \A k \in 1..Len(log[c]) : log[c][k].res = "failed"
      /\ \A ki \in 1..Len(Keys(c)) : \A mi \in 1..NumModels :
           Cardinality({k \in 1..Len(log[c]) :
                          log[c][k].ki = ki /\ log[c][k].mi = mi}) = 1

\* Exhaustion with two credentials.
C3_Witness ==
  \E c \in Callers :
    /\ Failed(c)
    /\ Len(Keys(c)) >= 2
    /\ outcome[c].exc.msg.template = ExhaustedTemplate
    /\ Len(log[c]) = 2 * NumModels

\* C4: the attempts of a call are in the nested order, only the last one
\* can be in flight, and a first success at credential i and model j (from
\* 0) ends the call after exactly i * len(models) + j + 1 attempts.
C4_NestedSequentialOrder ==
  \A c \in Callers :
    /\ InSweepOrder(c)
    /\ \A k \in 1..(Len(log[c]) - 1) : log[c][k].res = "failed"
    /\ (log[c] # <<>> /\ log[c][Len(log[c])].res = "pending") <=> pc[c] = "await"
    /\ Returned(c) =>
         LET last == log[c][Len(log[c])]
         IN  Len(log[c]) = (last.ki - 1) * NumModels + (last.mi - 1) + 1

\* Two credentials, only the first credential's last model succeeds: the
\* result names that model and no attempt was made with the second one.
C4_Witness ==
  \E c \in Callers :
    /\ Len(Keys(c)) = 2
    /\ Returned(c)
    /\ outcome[c].model = MODEL_PRIORITY[NumModels]
    /\ Len(log[c]) = NumModels
    /\ \A k \in 1..Len(log[c]) : log[c][k].ki = 1

\* C5: no two attempts of one call are of the same credential string and
\* the same model string.
C5_NoPairTwice ==
  \A c \in Callers :
    \A k1 \in 1..Len(log[c]) : \A k2 \in 1..Len(log[c]) :
      (log[c][k1].key = log[c][k2].key /\ log[c][k1].model = log[c][k2].model)
        => k1 = k2

\* A full sweep under an environment that holds one credential value in a
\* slot and in the bulk list.
C5_Witness ==
  \E c \in Callers :
    /\ Len(ScanKeys(env)) > Len(Keys(c))
    /\ GEMINI_API_KEYS \in DOMAIN env
    /\ Len(Keys(c)) >= 2
    /\ Len(log[c]) = Len(Keys(c)) * NumModels

\* A raised call carries the configuration or the exhaustion error, and the
\* latter only after every pair was attempted and failed.
OnlyTerminalFailures ==
  \A c \in Callers :
    Failed(c) =>
      /\ outcome[c].exc \in
           {NoKeysError, ExhaustedError(Len(Keys(c)), None)}
           \cup {ExhaustedError(Len(Keys(c)), AttemptError(kind, ki, mi)) :
                   kind \in ErrorKinds, ki \in 1..Len(Keys(c)),
                   mi \in 1..NumModels}
      /\ \/ Keys(c) = <<>>
         \/ /\ Len(log[c]) = Len(Keys(c)) * NumModels
            /\ \A k \in 1..Len(log[c]) : log[c][k].res = "failed"

\* What a step does to a call whose attempt failed, and what follows it.
FailureStep ==
  \A c \in Callers :
    /\ (pc[c] = "await" /\ pc'[c] # "await" /\ outcome'[c].type # "return") =>
         /\ pc'[c] = "model_sleep"
         /\ outcome'[c] = None
         /\ i'[c] = i[c] /\ j'[c] = j[c]
         /\ Len(log'[c]) = Len(log[c])
    /\ (pc[c] = "model_sleep" /\ pc'[c] # pc[c]) =>
         /\ pc'[c] = "model"
         /\ i'[c] = i[c] /\ j'[c] = j[c] + 1
    /\ (pc[c] = "model" /\ pc'[c] = "await") =>
         LET last == log'[c][Len(log'[c])]
         IN  /\ last.ki = i[c] /\ last.mi = j[c]
             /\ Len(log'[c]) = Len(log[c]) + 1

\* C6: a failed attempt, whatever the category of its error, only moves the
\* call on to the delay before the next model: the step does not depend on
\* the category, the call does not end, and the next attempt is of the
\* successor pair.  A call raises only the configuration error (no
\* credentials) or the exhaustion error (every pair attempted and failed),
\* never the error of an attempt.
C6_FailuresAbsorbed == []OnlyTerminalFailures /\ [][FailureStep]_vars

\* After an authentication error the call is attempting the next model with
\* the same credential.
C6_Witness ==
  \E c \in Callers :
    /\ pc[c] = "await"
    /\ raised[c] # None
    /\ raised[c].kind = "auth"
    /\ raised[c].at = <<i[c], j[c] - 1>>

\* C7: the exhaustion error carries the error the provider raised last,
\* which is the error of the attempt of the last credential with the last
\* model.
C7_LastErrorEmbedded ==
  \A c \in Callers :
    (Failed(c) /\ Keys(c) # <<>>) =>
      /\ outcome[c].exc.msg.args[2] = raised[c]
      /\ raised[c] # None
      /\ raised[c].at = <<Len(Keys(c)), NumModels>>

\* An exhausted sweep over two credentials whose last error was a quota
\* error.
C7_Witness ==
  \E c \in Callers :
    /\ Failed(c)
    /\ Len(Keys(c)) = 2
    /\ raised[c] # None
    /\ raised[c].kind = "quota"
    /\ outcome[c].exc.msg.args[2].kind = "quota"

\* C8 as claimed: the failure raised without credentials is of another kind
\* (exception type) than the failure raised on exhaustion.
C8_DistinctKinds ==
  \A c \in Callers :
    (Failed(c) /\ Keys(c) = <<>>) =>
      outcome[c].exc.type # ExhaustedError(0, None).type

\* C8: the failure raised without credentials and the failure raised on
\* exhaustion are both plain Exception objects; they differ in their
\* message, which is the fixed "No API keys found" text in the first case
\* and the "Unable to fetch response" text in the second.
C8_DistinctMessagesOnly ==
  \A c \in Callers :
    Failed(c) =>
      /\ outcome[c].exc.type = "Exception"
      /\ Keys(c) = <<>> =>
           /\ outcome[c].exc.msg = NoKeysError.msg
           /\ outcome[c].exc.msg.template # ExhaustedTemplate
      /\ Keys(c) # <<>> =>
           /\ outcome[c].exc.msg.template = ExhaustedTemplate
           /\ outcome[c].exc.msg.template # NoKeysError.msg.template

\* A call that failed for want of credentials, with a plain Exception.
C8_Witness ==
  \E c \in Callers :
    /\ Failed(c)
    /\ Keys(c) = <<>>
    /\ outcome[c].exc.type = "Exception"
    /\ status[c] # None

\* C9: a call that returned has returned a string as its text and a model
\* of the priority list.
C9_ReturnsText ==
  \A c \in Callers :
    Returned(c) =>
      /\ outcome[c].text # None
      /\ IsStr(outcome[c].text)
      /\ outcome[c].model \in Range(MODEL_PRIORITY)

NoDuplicates(s) == \A a \in 1..Len(s) : \A b \in 1..Len(s) : s[a] = s[b] => a = b

FirstIndex(s, x) == CHOOSE n \in 1..Len(s) : s[n] = x /\ \A m \in 1..(n - 1) : s[m] # x

\* C10: the loaded list holds every scanned credential value, each once,
\* ordered by the values' first occurrences in the scan (slots in ascending
\* order, then the bulk entries).
C10_DedupFirstSeen ==
  _api_manager # None =>
    LET loaded  == _api_manager.api_keys
        scanned == ScanKeys(env)
    IN  /\ NoDuplicates(loaded)
        /\ Range(loaded) = Range(scanned)
        /\ \A a \in 1..Len(loaded) : \A b \in 1..Len(loaded) :
             a < b => FirstIndex(scanned, loaded[a]) < FirstIndex(scanned, loaded[b])

\* One credential string in two slots and another one before it in the
\* bulk list only: the loaded list holds each once.
C10_Witness ==
  /\ _api_manager # None
  /\ GEMINI_API_KEY(1) \in DOMAIN env
  /\ GEMINI_API_KEY(NumSlots) \in DOMAIN env
  /\ env[GEMINI_API_KEY(1)] = env[GEMINI_API_KEY(NumSlots)]
  /\ Truthy(env[GEMINI_API_KEY(1)])
  /\ Len(_api_manager.api_keys) = 2
  /\ Len(ScanKeys(env)) >= 4

\* A variable of the environment is set to a non-empty string.
IsSet(name) == name \in DOMAIN env /\ env[name].chars # <<>>

\* What slot n supplies: its GEMINI value, else its GOOGLE value, else
\* nothing.
SlotValue(n) ==
  IF IsSet(GEMINI_API_KEY(n)) THEN env[GEMINI_API_KEY(n)]
  ELSE IF IsSet(GOOGLE_API_KEY(n)) THEN env[GOOGLE_API_KEY(n)]
  ELSE None

SlotValues == {SlotValue(n) : n \in 1..20} \ {None}

\* The first slot that supplies x.
FirstSlot(x) == CHOOSE n \in 1..20 : SlotValue(n) = x /\ \A m \in 1..(n - 1) : SlotValue(m) # x

\* C11: the loaded list starts with what the slots 1..20 supply, one value
\* per slot at most (the GEMINI value, else the GOOGLE value), in ascending
\* slot order; a GOOGLE value behind a set GEMINI value and the value of a
\* slot above 20 are loaded only if the bulk list or another slot supplies
\* them.
C11_SlotScan ==
  _api_manager # None =>
    LET loaded == _api_manager.api_keys
    IN  /\ SlotValues \subseteq Range(loaded)
        /\ Range(loaded) \ SlotValues \subseteq Range(BulkKeys(env))
        /\ \A p \in 1..Len(loaded) : \A q \in 1..Len(loaded) :
             /\ (p < q /\ loaded[p] \in SlotValues /\ loaded[q] \in SlotValues)
                  => FirstSlot(loaded[p]) < FirstSlot(loaded[q])
             /\ (loaded[p] \in SlotValues /\ loaded[q] \notin SlotValues) => p < q

\* Slot 1 holds two different values under its two names and slot 21 is
\* set: the GOOGLE value of slot 1 and the value of slot 21 are not loaded.
C11_Witness ==
  /\ _api_manager # None
  /\ IsSet(GEMINI_API_KEY(1))
  /\ IsSet(GOOGLE_API_KEY(1))
  /\ IsSet(GEMINI_API_KEY(21))
  /\ IsSet(GOOGLE_API_KEY(2))
  /\ env[GOOGLE_API_KEY(1)] \notin Range(_api_manager.api_keys)
  /\ env[GEMINI_API_KEY(21)] \notin Range(_api_manager.api_keys)
  /\ Len(_api_manager.api_keys) >= 2

\* The characters of GEMINI_API_KEYS.
BulkChars == IF GEMINI_API_KEYS \in DOMAIN env THEN env[GEMINI_API_KEYS].chars ELSE <<>>

\* Positions a..b of the bulk string hold one entry without its padding:
\* no comma inside, no whitespace at its ends, and only whitespace between
\* it and the commas (or the ends of the string) around it.
IsEntry(a, b) ==
  LET s == BulkChars
  IN  /\ a <= b
      /\ s[a] \notin Whitespace /\ s[b] \notin Whitespace
      /\ \A m \in a..b : s[m] # ","
      /\ \E lo \in 1..a : /\ (lo = 1 \/ s[lo - 1] = ",")
                          /\ \A m \in lo..(a - 1) : s[m] \in Whitespace
      /\ \E hi \in b..Len(s) : /\ (hi = Len(s) \/ s[hi + 1] = ",")
                               /\ \A m \in (b + 1)..hi : s[m] \in Whitespace

BulkEntries ==
  {Str(SubSeq(BulkChars, ab[1], ab[2])) :
     ab \in {x \in (1..Len(BulkChars)) \X (1..Len(BulkChars)) : IsEntry(x[1], x[2])}}

\* Where the entry x first starts in the bulk string.
FirstStart(x) ==
  CHOOSE a \in 1..Len(BulkChars) :
    /\ \E b \in a..Len(BulkChars) : IsEntry(a, b) /\ Str(SubSeq(BulkChars, a, b)) = x
    /\ \A m \in 1..(a - 1) :
         ~\E b \in m..Len(BulkChars) : IsEntry(m, b) /\ Str(SubSeq(BulkChars, m, b)) = x

\* C12: the loaded list holds the slot values and then the entries of
\* GEMINI_API_KEYS that no slot supplies, without their padding, in the
\* order they are listed; it holds no empty string, and it is empty exactly
\* when no slot and no bulk entry supplies a value.
C12_BulkEntries ==
  _api_manager # None =>
    LET loaded == _api_manager.api_keys
    IN  /\ \A k \in Range(loaded) : IsStr(k) /\ k.chars # <<>>
        /\ Range(loaded) = SlotValues \cup BulkEntries
        /\ \A p \in 1..Len(loaded) : \A q \in 1..Len(loaded) :
             /\ (loaded[p] \in SlotValues /\ loaded[q] \notin SlotValues) => p < q
             /\ (p < q /\ loaded[p] \notin SlotValues /\ loaded[q] \notin SlotValues)
                  => FirstStart(loaded[p]) < FirstStart(loaded[q])
        /\ (loaded = <<>>) <=> (SlotValues = {} /\ BulkEntries = {})

\* A padded bulk list with two entries that no slot supplies, loaded after
\* a slot value.
C12_Witness ==
  /\ _api_manager # None
  /\ Len(BulkChars) > 0
  /\ BulkChars[1] \in Whitespace
  /\ Cardinality(BulkEntries \ SlotValues) = 2
  /\ SlotValues # {}
  /\ Len(_api_manager.api_keys) = 3

\* The caller is inside the sweep of the credential its key_preview was
\* computed from.
PreviewShown(c) == pc[c] \in {"model", "await", "model_sleep"}

\* C13: the key preview is the placeholder for a credential of 4 characters
\* or fewer, three dots and the last 4 characters for a longer one, and is
\* never the credential in full.
C13_PreviewMasks ==
  \A c \in Callers :
    PreviewShown(c) =>
      LET api_key == Keys(c)[i[c]]
          n       == Len(api_key.chars)
      IN  /\ n <= 4 => key_preview[c] = Str(<<"U", "n", "k", "n", "o", "w", "n">>)
          /\ n > 4 => key_preview[c] =
                        Str(<<".", ".", ".">> \o SubSeq(api_key.chars, n - 3, n))
          /\ key_preview[c] # api_key

\* The four model names of lines 32-37, in their order.
ModelNames ==
  <<"gemini-2.5-flash", "gemini-2.0-flash", "gemini-2.5-flash-lite",
    "gemini-2.0-flash-lite">>

\* The model list as the program's reads of it show it.
ModelListAsLoaded ==
  \A c \in Callers :
    /\ status[c] # None => status[c].available_models = ModelNames
    /\ \A k \in 1..Len(log[c]) : log[c][k].model = ModelNames[log[c][k].mi]

\* No step changes a constructed manager, or the manager a caller holds.
ManagerStep ==
  /\ _api_manager # None => _api_manager' = _api_manager
  /\ \A c \in Callers : api_manager[c] # None => api_manager'[c] = api_manager[c]

\* C14: once the manager is constructed no step of generate_content,
\* get_status or reset changes its credential list, and the model list read
\* by every attempt and every status is the one of lines 32-37.
C14_ListsNeverChange == []ModelListAsLoaded /\ [][ManagerStep]_vars

\* A sweep over two credentials failed and the status was read after it:
\* the manager still holds both credentials.
C14_Witness ==
  /\ Failed(1)
  /\ Len(log[1]) = 2 * NumModels
  /\ pc[1] = "idle"
  /\ status[1] # None
  /\ _api_manager # None
  /\ Len(_api_manager.api_keys) = 2
  /\ api_manager[1] = _api_manager

\* A call of the caller is over.
Done(c) == pc[c] = "idle" /\ outcome[c] # None

\* Two calls met the same outcome on every pair both of them tried: the
\* same response text or a failure, and the same error where both record
\* the error of that pair.
SameOutcomesFaced(c, d) ==
  /\ \A k \in 1..Len(log[c]) : \A m \in 1..Len(log[d]) :
       (log[c][k].ki = log[d][m].ki /\ log[c][k].mi = log[d][m].mi) =>
         /\ log[c][k].res = log[d][m].res
         /\ log[c][k].text = log[d][m].text
  /\ (raised[c] # None /\ raised[d] # None /\ raised[c].at = raised[d].at) =>
       raised[c].kind = raised[d].kind

\* Two calls issued the same attempts, in the same order.
SameAttempts(c, d) ==
  /\ Len(log[c]) = Len(log[d])
  /\ \A k \in 1..Len(log[c]) :
       /\ log[c][k].ki = log[d][k].ki /\ log[c][k].key = log[d][k].key
       /\ log[c][k].mi = log[d][k].mi /\ log[c][k].model = log[d][k].model

\* C15: every call starts at the first credential and the first model,
\* whatever the calls before it did, and two finished calls on the same
\* manager that met the same outcome on every pair issued the same attempts
\* and ended with the same result.
C15_NoHistoryAcrossCalls ==
  /\ \A c \in Callers :
       /\ (pc[c] = "key" /\ log[c] = <<>>) => i[c] = 1
       /\ log[c] # <<>> => (log[c][1].ki = 1 /\ log[c][1].mi = 1)
  /\ \A c \in Callers : \A d \in Callers :
       (Done(c) /\ Done(d) /\ api_manager[c] = api_manager[d]
          /\ SameOutcomesFaced(c, d)) =>
         (SameAttempts(c, d) /\ outcome[c] = outcome[d])

\* A call that failed on every pair of two credentials, and after it a call
\* of the other caller that met the same failures: both tried all pairs
\* from the first on.
C15_Witness ==
  /\ Done(1) /\ Done(2)
  /\ Failed(1) /\ Failed(2)
  /\ Len(Keys(1)) = 2
  /\ SameOutcomesFaced(1, 2)
  /\ Len(log[1]) = 2 * NumModels
  /\ Len(log[2]) = 2 * NumModels
  /\ prompt[1] # prompt[2]

\* What a caller's thread owns: its position, its reference to the manager
\* and the locals of its call.
Frame(c) ==
  <<pc[c], api_manager[c], prompt[c], i[c], j[c], last_error[c], key_preview[c],
    log[c], clients[c], raised[c], outcome[c]>>

\* The call of a caller, in progress or over, is what a call running alone
\* is: its attempts are a prefix of the sweep order, every attempt but the
\* last failed, and its result is the first success, or the failure of a
\* full sweep.
AsIfAlone(c) ==
  /\ InSweepOrder(c)
  /\ \A k \in 1..(Len(log[c]) - 1) : log[c][k].res = "failed"
  /\ Len(log[c]) <= Len(Keys(c)) * NumModels
  /\ pc[c] = "await" =>
       (log[c] # <<>> /\ log[c][Len(log[c])].res = "pending"
          /\ log[c][Len(log[c])].ki = i[c] /\ log[c][Len(log[c])].mi = j[c])
  /\ pc[c] = "model" => Len(log[c]) = (i[c] - 1) * NumModels + (j[c] - 1)
  /\ (log[c] # <<>> /\ log[c][Len(log[c])].res = "ok") =>
       /\ pc[c] \in {"idle", "gam_construct", "gam_return"}
       /\ outcome[c] = Return(log[c][Len(log[c])].text, log[c][Len(log[c])].model)
  /\ Returned(c) => (log[c] # <<>> /\ log[c][Len(log[c])].res = "ok")
  /\ Failed(c) =>
       \/ Keys(c) = <<>> /\ log[c] = <<>> /\ outcome[c] = Raise(NoKeysError)
       \/ /\ Keys(c) # <<>>
          /\ Len(log[c]) = Len(Keys(c)) * NumModels
          /\ log[c][Len(log[c])].res = "failed"
          /\ outcome[c] = Raise(ExhaustedError(Len(Keys(c)), raised[c]))

AllAsIfAlone == \A c \in Callers : AsIfAlone(c)

\* A step is of one thread and changes no other thread's frame.
OneFrameStep == \A c \in Callers : \A d \in Callers \ {c} :
  Frame(c)' # Frame(c) => Frame(d)' = Frame(d)

\* C16: with calls of several threads interleaved on the shared manager,
\* each call is what it would be alone, and no step of one call changes the
\* position, the attempts or the result of another.
C16_ConcurrentCallsIsolated == []AllAsIfAlone /\ [][OneFrameStep]_vars

\* Two calls in progress at once, one on its second attempt and the other
\* on the second credential.
C16_Witness ==
  /\ pc[1] = "await" /\ Len(log[1]) = 2
  /\ pc[2] = "model_sleep" /\ Len(log[2]) = NumModels + 2
  /\ api_manager[1] = api_manager[2]

\* C17: the manager is constructed at most once, and every caller of
\* get_api_manager holds the same instance, under every interleaving of the
\* callers' first calls.
C17_OneInstance ==
  /\ constructed <= 1
  /\ \A c \in Callers : \A d \in Callers :
       (api_manager[c] # None /\ api_manager[d] # None) =>
         api_manager[c].id = api_manager[d].id

\* C18: generate_content never waits: no call is ever at a sleep between a
\* failed attempt and the attempt, or the terminal failure, that follows it.
C18_NoWaitStep ==
  \A c \in Callers : pc[c] \notin {"model_sleep", "key_sleep"}

\* A generate_content call of the caller is in progress.
InCall(c) == pc[c] \notin {"idle", "gam_construct", "gam_return"}

\* A call issues at most one attempt per pair, and what it ends in is a
\* (text, model) pair of a model of the list, the not-configured failure or
\* the exhaustion failure.
BoundedAndThreeOutcomes ==
  \A c \in Callers :
    /\ Len(log[c]) <= Len(Keys(c)) * NumModels
    /\ InCall(c) => outcome[c] = None
    /\ outcome[c] # None =>
         \/ /\ outcome[c].type = "return"
            /\ outcome[c].text \in ResponseTexts
            /\ outcome[c].model \in Range(MODEL_PRIORITY)
         \/ outcome[c] = Raise(NoKeysError)
         \/ /\ outcome[c].type = "raise"
            /\ outcome[c].exc.msg.template = ExhaustedTemplate

\* C19: if every provider call returns or raises, every generate_content
\* call ends, after at most one attempt per (credential, model) pair, with a
\* (text, model) pair, the not-configured failure or the exhaustion failure.
C19_CallsTerminate ==
  /\ []BoundedAndThreeOutcomes
  /\ \A c \in Callers : InCall(c) ~> (pc[c] = "idle" /\ outcome[c] # None)

\* A call that succeeded on its last pair, the 8th attempt over two
\* credentials.
C19_Witness ==
  /\ pc[1] = "idle"
  /\ Returned(1)
  /\ Len(Keys(1)) = 2
  /\ Len(log[1]) = Len(Keys(1)) * NumModels

\* What a status read shows: the number of loaded credentials, the model
\* list in priority order, and no failed key.
StatusShown ==
  \A c \in Callers :
    status[c] # None =>
      /\ status[c].total_keys = Len(Keys(c))
      /\ status[c].available_models = ModelNames
      /\ status[c].failed_keys = 0

\* A step that reads the status changes nothing else.
StatusStep ==
  status' # status =>
    UNCHANGED <<ui, env, _api_manager, constructed, pc, api_manager, locals>>

\* C20: get_status reports the length of the loaded credential list and the
\* model list in priority order, changes nothing but the caller's copy of
\* the report, and reports 0 failed keys whatever failed before.
C20_StatusReadOnly == []StatusShown /\ [][StatusStep]_vars

\* The status of a manager with two credentials, beside a call whose first
\* credential failed on every model before the second one answered.
C20_Witness ==
  /\ status[1] # None
  /\ status[1].total_keys = 2
  /\ pc[1] = "idle"
  /\ Returned(1)
  /\ Len(log[1]) = NumModels + 1

\* The caller holds a Groq manager with a client.
HasGroqClient(c) ==
  /\ api_manager[c] # None
  /\ api_manager[c].type = "GroqAPIManager"
  /\ api_manager[c].client # None

NumGroqModels == Len(GROQ_MODEL_PRIORITY)

\* C21: a call on a Groq manager with a client issues its k-th attempt on
\* the k-th model of the list; every attempt before the last failed; a
\* success ends the call with that attempt's text and model; and a failure
\* comes after exactly one attempt per model and carries the error of the
\* last model.
C21_GroqModelSweep ==
  \A c \in Callers :
    HasGroqClient(c) =>
      /\ Len(log[c]) <= NumGroqModels
      /\ \A k \in 1..Len(log[c]) :
           /\ log[c][k].mi = k
           /\ log[c][k].model = GROQ_MODEL_PRIORITY[k]
           /\ k < Len(log[c]) => log[c][k].res = "failed"
      /\ (log[c] # <<>> /\ log[c][Len(log[c])].res = "ok") =>
           /\ pc[c] = "idle"
           /\ outcome[c] = Return(log[c][Len(log[c])].text, log[c][Len(log[c])].model)
      /\ Returned(c) => (log[c] # <<>> /\ log[c][Len(log[c])].res = "ok")
      /\ Failed(c) =>
           /\ Len(log[c]) = NumGroqModels
           /\ \A k \in 1..Len(log[c]) : log[c][k].res = "failed"
           /\ raised[c] # None /\ raised[c].at = <<1, NumGroqModels>>
           /\ outcome[c] = Raise(GroqExhaustedError(raised[c]))

\* A call on a Groq manager with a client that failed on all four models.
C21_Witness ==
  /\ HasGroqClient(1)
  /\ Failed(1)
  /\ pc[1] = "idle"
  /\ Len(log[1]) = 4
  /\ log[1][4].model = "gemma2-9b-it"

\* C22: a Groq manager has a client exactly when GROQ_API_KEY is set and
\* not empty; a call on a manager without a client fails with the
\* not-initialized error and issues no provider call; the status shows
\* "Missing" without a client and "Active" with one.
C22_GroqClientPresence ==
  \A c \in Callers :
    (api_manager[c] # None /\ api_manager[c].type = "GroqAPIManager") =>
      /\ (api_manager[c].client # None) <=> IsSet(GROQ_API_KEY)
      /\ api_manager[c].client # None =>
           (api_manager[c].client.api_key = env[GROQ_API_KEY]
              /\ outcome[c] # Raise(GroqNotInitialized))
      /\ api_manager[c].client = None =>
           /\ log[c] = <<>>
           /\ pc[c] = "idle"
           /\ outcome[c] \in {None, Raise(GroqNotInitialized)}
      /\ status[c] # None =>
           status[c].current_key_status =
             (IF IsSet(GROQ_API_KEY) THEN "Active" ELSE "Missing")

\* GROQ_API_KEY is the empty string: the call failed at once and the status
\* shows the key as missing.
C22_Witness ==
  /\ GROQ_API_KEY \in DOMAIN env
  /\ ~IsSet(GROQ_API_KEY)
  /\ api_manager[1] # None
  /\ outcome[1] = Raise(GroqNotInitialized)
  /\ log[1] = <<>>
  /\ status[1] # None
  /\ status[1].current_key_status = "Missing"

\* The positions of the first '[' and of the last ']' of a text, 0 when
\* there is none.
FirstOpen(cs) ==
  IF \E n \in 1..Len(cs) : cs[n] = "["
  THEN CHOOSE n \in 1..Len(cs) : cs[n] = "[" /\ \A m \in 1..Len(cs) : cs[m] = "[" => n <= m
  ELSE 0

LastClose(cs) ==
  IF \E n \in 1..Len(cs) : cs[n] = "]"
  THEN CHOOSE n \in 1..Len(cs) : cs[n] = "]" /\ \A m \in 1..Len(cs) : cs[m] = "]" => m <= n
  ELSE 0

\* A text of the model reached the JSON decoder in the last request.
Decoded == script_run.clean_json # None

\* C23 as stated: whenever the text holds a '[' and a ']', the decoder
\* gets the text from the first '[' through the last ']', on every page.
C23_OutermostBrackets ==
  Decoded =>
    LET raw == script_run.raw_response.chars
    IN  (FirstOpen(raw) # 0 /\ LastClose(raw) # 0) =>
          script_run.clean_json.chars = SubSeq(raw, FirstOpen(raw), LastClose(raw))

\* C23: whenever the text holds a '[' and a ']' after it, the decoder gets
\* the text from the first '[' through the last ']', on every page; when
\* the last ']' is before the first '[', app.py gives the decoder the whole
\* text and the two quiz pages give it the empty string.
C23_OutermostBracketsInOrder ==
  Decoded =>
    LET raw == script_run.raw_response.chars
    IN  /\ (FirstOpen(raw) # 0 /\ FirstOpen(raw) < LastClose(raw)) =>
             script_run.clean_json.chars = SubSeq(raw, FirstOpen(raw), LastClose(raw))
        /\ (LastClose(raw) # 0 /\ LastClose(raw) < FirstOpen(raw)) =>
             script_run.clean_json.chars =
               (IF script_run.page = "app" THEN strip(raw) ELSE <<>>)

\* app.py decoded an array that had prose before and after it.
C23_Witness ==
  /\ script_run.page = "app"
  /\ script_run.stage = "stored"
  /\ FirstOpen(script_run.raw_response.chars) > 1
  /\ LastClose(script_run.raw_response.chars) < Len(script_run.raw_response.chars)
  /\ session_state["app"].quiz_data = List(<<PyInt(1), PyInt(2)>>)

\* The text of the URL box in the last Website request.
BoxChars == IF script_run.urls_input = None THEN <<>> ELSE script_run.urls_input.chars

\* Where the part after the scheme starts when http:// or https:// is
\* written at position a of the box, 0 when it is not.
AfterScheme(a) ==
  IF a + 7 <= Len(BoxChars) + 1
       /\ SubSeq(BoxChars, a, a + 6) = <<"h", "t", "t", "p", ":", "/", "/">>
  THEN a + 7
  ELSE IF a + 8 <= Len(BoxChars) + 1
       /\ SubSeq(BoxChars, a, a + 7) = <<"h", "t", "t", "p", "s", ":", "/", "/">>
  THEN a + 8
  ELSE 0

\* A character of a URL: no blank, no angle bracket, no quote.
UrlChar(ch) == ch \notin {" ", "\t", "\n", "\r", "\f", "<", ">", "\"", "'"}

\* Positions a..b hold a scheme and then one or more URL characters, as
\* many as there are.
UrlSpan(a, b) ==
  /\ AfterScheme(a) # 0
  /\ AfterScheme(a) <= b /\ b <= Len(BoxChars)
  /\ \A m \in AfterScheme(a)..b : UrlChar(BoxChars[m])
  /\ (b = Len(BoxChars) \/ ~UrlChar(BoxChars[b + 1]))

\* A scheme and at least one URL character are written at position a.
UrlStart(a) ==
  /\ AfterScheme(a) # 0
  /\ AfterScheme(a) <= Len(BoxChars)
  /\ UrlChar(BoxChars[AfterScheme(a)])

\* Where the URL written from position a ends.
SpanEnd(a) == CHOOSE b \in AfterScheme(a)..Len(BoxChars) : UrlSpan(a, b)

UrlAt(a) == Str(SubSeq(BoxChars, a, SpanEnd(a)))

\* A URL is found at a when no URL that starts to the left of a runs over
\* a: a URL runs on as long as URL characters follow.
FoundStarts ==
  {a \in 1..Len(BoxChars) :
     /\ UrlStart(a)
     /\ \A x \in 1..(a - 1) :
          UrlStart(x) => \E m \in x..(a - 1) : ~UrlChar(BoxChars[m])}

\* C24: the URLs a Website request scrapes are URLs found in the box, each
\* once, in the order they are first found, and they are the first 5 of the
\* different URLs found (all of them when there are 5 or fewer).
C24_UrlsOfRequest ==
  (script_run.page = "website" /\ script_run.urls_input # None) =>
    LET urls     == script_run.urls
        starts   == FoundStarts
        found    == {UrlAt(a) : a \in starts}
        First(u) == CHOOSE a \in starts :
                      UrlAt(a) = u /\ \A x \in starts : UrlAt(x) = u => a <= x
    IN  /\ Len(urls) <= 5
        /\ Len(urls) = (IF Cardinality(found) < 5 THEN Cardinality(found) ELSE 5)
        /\ Range(urls) \subseteq found
        /\ \A p \in 1..Len(urls) : \A q \in 1..Len(urls) :
             p < q => First(urls[p]) < First(urls[q])
        /\ \A u \in found \ Range(urls) : \A p \in 1..Len(urls) :
             First(urls[p]) < First(u)

\* A request with eight URLs in the box, six of them different: five are
\* scraped.
C24_Witness ==
  /\ script_run.page = "website"
  /\ script_run.urls_input # None
  /\ Cardinality(FoundStarts) = 8
  /\ Cardinality({UrlAt(a) : a \in FoundStarts}) = 6
  /\ Len(script_run.urls) = 5
  /\ script_run.phase = "generating"

\* The last request got past the input checks and then failed: no
\* transcript or page text, a failed generation, or an answer that could
\* not be decoded or stored.
RequestFailed == script_run.stage \in {"no_text", "ai_error", "decode_error", "error"}

\* C25: while a request that got past the input checks is generating, and
\* after it failed at any later stage, its page holds no quiz: the quiz
\* data is None and the generated flag is False.
C25_FailedRequestHoldsNoQuiz ==
  (script_run.phase = "generating" \/ RequestFailed) =>
    /\ session_state[script_run.page].quiz_data = None
    /\ session_state[script_run.page].quiz_generated = FALSE

\* The Website page got an answer that is no JSON, after scraping two URLs.
C25_Witness ==
  /\ script_run.page = "website"
  /\ script_run.stage = "decode_error"
  /\ Len(script_run.urls) = 2
  /\ script_run.raw_response = Str(<<"o", "o", "p", "s">>)
  /\ session_state["website"] = [NoQuiz EXCEPT !.model_used = GROQ_MODEL_PRIORITY[1]]

\* C26: the quiz the Website page stores has at most num_questions
\* entries; an array with more is stored as its first num_questions
\* entries, in order.
C26_QuestionCountEnforced ==
  (script_run.page = "website" /\ script_run.stage = "stored") =>
    LET answer == loads(script_run.clean_json.chars)
        stored == session_state["website"].quiz_data
        n      == script_run.num_questions
    IN  /\ HasLen(stored)
        /\ LenOf(stored) <= n
        /\ answer.type = "list" =>
             /\ stored.type = "list"
             /\ Len(stored.items) = (IF Len(answer.items) < n THEN Len(answer.items) ELSE n)
             /\ \A k \in 1..Len(stored.items) : stored.items[k] = answer.items[k]

\* The model answered six questions where five were asked for: the first
\* five are stored.
C26_Witness ==
  /\ script_run.page = "website"
  /\ script_run.stage = "stored"
  /\ script_run.num_questions = 5
  /\ loads(script_run.clean_json.chars) =
       List(<<PyInt(1), PyInt(2), PyInt(3), PyInt(4), PyInt(5), PyInt(6)>>)
  /\ session_state["website"].quiz_data =
       List(<<PyInt(1), PyInt(2), PyInt(3), PyInt(4), PyInt(5)>>)

\* C28: on every page, the generated flag is set only with quiz data that
\* is not None.
C28_FlagImpliesData ==
  \A page \in Pages :
    session_state[page].quiz_generated => session_state[page].quiz_data # None

\* C30: on every page, the generated flag is set only with quiz data that
\* is a list.
C30_QuizIsList ==
  \A page \in Pages :
    session_state[page].quiz_generated => session_state[page].quiz_data.type = "list"

\* The two managers are configured alike: one credential and a client, or
\* no credential and no client.
OneCredentialEach ==
  /\ api_manager[Gemini] # None
  /\ Len(api_manager[Gemini].api_keys) = 1
  /\ HasGroqClient(Groq)

NoCredentialEach ==
  /\ api_manager[Gemini] # None
  /\ api_manager[Gemini].api_keys = <<>>
  /\ api_manager[Groq] # None
  /\ api_manager[Groq].client = None

\* The call of caller c is over.
CallOver(c) == pc[c] = "idle" /\ outcome[c] # None

\* What the provider did to the k-th attempt of caller c.
Fate(c, k) == <<log[c][k].res, log[c][k].text>>

\* The attempts of the two callers met the same fates as far as both went.
SameFates ==
  \A k \in 1..Len(log[Gemini]) :
    k <= Len(log[Groq]) => Fate(Gemini, k) = Fate(Groq, k)

\* The place of a model in its manager's list.
PlaceOf(model, priority) == CHOOSE k \in 1..Len(priority) : priority[k] = model

\* The error an exhaustion message ends with.
Carried(exc) == exc.msg.args[Len(exc.msg.args)]

\* C27: with one credential and a Groq client, calls of the two managers
\* whose attempts meet the same fates issue the same sequence of model
\* positions and end alike: a return of the same text from the model at the
\* same position, or an exhaustion carrying the error of the last attempt;
\* and with no credential and no client both calls fail at once, with no
\* attempt.
C27_GroqAsOneKeyDispatcher ==
  /\ OneCredentialEach =>
       /\ \A k \in 1..Len(log[Gemini]) :
            (k <= Len(log[Groq]) /\ \A m \in 1..(k - 1) : Fate(Gemini, m) = Fate(Groq, m)) =>
              log[Gemini][k].mi = log[Groq][k].mi
       /\ (CallOver(Gemini) /\ CallOver(Groq) /\ SameFates) =>
            /\ Len(log[Gemini]) = Len(log[Groq])
            /\ outcome[Gemini].type = outcome[Groq].type
            /\ outcome[Gemini].type = "return" =>
                 /\ outcome[Gemini].text = outcome[Groq].text
                 /\ PlaceOf(outcome[Gemini].model, MODEL_PRIORITY) =
                      PlaceOf(outcome[Groq].model, GROQ_MODEL_PRIORITY)
            /\ outcome[Gemini].type = "raise" =>
                 /\ Len(log[Groq]) = NumGroqModels
                 /\ Carried(outcome[Gemini].exc) = raised[Gemini]
                 /\ Carried(outcome[Groq].exc) = raised[Groq]
                 /\ raised[Gemini].at = raised[Groq].at
  /\ NoCredentialEach =>
       \A c \in {Gemini, Groq} :
         CallOver(c) =>
           /\ log[c] = <<>>
           /\ outcome[c].type = "raise"
           /\ outcome[c].exc.msg.args = <<>>

\* Both calls failed on two models and were answered by the third.
C27_Witness ==
  /\ OneCredentialEach
  /\ CallOver(Gemini) /\ CallOver(Groq) /\ SameFates
  /\ Len(log[Gemini]) = 3
  /\ outcome[Gemini].type = "return"
  /\ outcome[Groq].model = GROQ_MODEL_PRIORITY[3]

\* C29: every attempt of a call, on either manager, is issued with the
\* prompt the caller passed in, whatever failed before it and whichever
\* key or model it is on.
C29_PromptUnchanged ==
  \A c \in {Gemini, Groq} :
    \A k \in 1..Len(log[c]) : log[c][k].prompt = prompt[c]

\* The dispatcher is on its second key after four failed models, and the
\* Groq manager was answered by its second model.
C29_Witness ==
  /\ Len(log[Gemini]) = 5
  /\ log[Gemini][5].ki = 2
  /\ log[Gemini][5].prompt = PromptPool[2]
  /\ Len(log[Groq]) = 2
  /\ log[Groq][2].res = "ok"
  /\ log[Groq][2].prompt = PromptPool[1]

====
